---------------------------- MODULE Spec2Model ----------------------------
(***************************************************************************)
(* A model of lakowske/service-monitor: the in-memory status store         *)
(* (storage.py), the notification gate (notifications.py), the stale       *)
(* sweeper and the HTTP handlers (main.py) and the manager of polled       *)
(* targets (monitored_services.py).                                        *)
(*                                                                         *)
(* Time.  datetime.now() is the variable now, counted in ticks of          *)
(* DEFAULT_CHECKIN_TIMEOUT_SECONDS seconds: every step happens at a        *)
(* multiple of that duration.  Seconds(t) converts ticks to the seconds    *)
(* the code compares.                                                      *)
(***************************************************************************)
EXTENDS Integers, Sequences, FiniteSets, TLC

VARIABLES
    now,        \* datetime.now(timezone.utc), in ticks
    services,   \* InMemoryStorage._services: records in insertion order
    cfg,        \* config.notifications, read once at import
    history,    \* EmailNotificationService._notification_history
    sends,      \* the calls of send_service_notification awaiting _send_email
    sweeper,    \* the task check_stale_services_loop
    observer,   \* per service, when the history was last written
    manager,    \* MonitoredServiceManager: services, check_tasks, _client
    probes,     \* the calls of check_monitored_service awaiting their probe
    app,        \* shutdown_event's position; the notification client is open
    ret         \* the call made by the last step and what it returned

vars == <<now, services, cfg, history, sends, sweeper, observer, manager,
          probes, app, ret>>

---------------------------------------------------------------------------
(* Bounds of the model *)

MaxTime == 2
MaxCount == 2
MaxNotifications == 2
MaxCancelled == 1

\* the calls of send_service_notification the model follows at one time
SendSlots == {1}
\* the calls in flight when two calls race
RaceSlots == {1, 2}

---------------------------------------------------------------------------
(* models.py: ServiceStatus *)

UP == "up"
DOWN == "down"
DEGRADED == "degraded"
UNKNOWN == "unknown"
ServiceStatus == {UP, DOWN, DEGRADED, UNKNOWN}

\* Python's None where a status is optional
None == "None"

\* the service names the model draws from
ServiceNames == {"a", "b"}

---------------------------------------------------------------------------
(* Time *)

DEFAULT_CHECKIN_TIMEOUT_SECONDS == 150

Seconds(ticks) == ticks * DEFAULT_CHECKIN_TIMEOUT_SECONDS

---------------------------------------------------------------------------
(* Values of ServiceInfo.message.  A message is None or a text; a text    *)
(* that the program formats is kept as its format and the numbers put in.  *)

NoMessage == [isNone |-> TRUE, text |-> "", args |-> <<>>]
TextMessage(t) == [isNone |-> FALSE, text |-> t, args |-> <<>>]
Format(t, args) == [isNone |-> FALSE, text |-> t, args |-> args]

\* check_stale_services: the message of a record it demotes
StaleMessage(time_since_checkin, timeout_seconds) ==
    Format("No check-in for {}s (timeout: {}s)",
           <<time_since_checkin, timeout_seconds>>)

(* Values of an Optional[dict[str, str]]: None or a dict d (a function     *)
(* from its keys to strings).                                              *)
NoMetadata == [isNone |-> TRUE, d |-> <<>>]
Dict(d) == [isNone |-> FALSE, d |-> d]

\* Python truthiness of an Optional[dict]: None and {} are falsy
Truthy(metadata) == ~metadata.isNone /\ DOMAIN metadata.d # {}

DictReplace(old, new) == new

\* dict.update
DictUpdate(old, new) ==
    [k \in DOMAIN old \cup DOMAIN new |-> IF k \in DOMAIN new THEN new[k] ELSE old[k]]

---------------------------------------------------------------------------
(* storage.py: InMemoryStorage *)

\* the keys of the dict _services
Keys(svcs) == {svcs[i].service_name : i \in DOMAIN svcs}

\* the position of service_name in the dict's insertion order
IndexOf(svcs, service_name) ==
    CHOOSE i \in DOMAIN svcs : svcs[i].service_name = service_name

\* _services[service_name]
Lookup(svcs, service_name) == svcs[IndexOf(svcs, service_name)]

CheckInCountOnChange(service, status) ==
    IF service.status # status
    THEN service.check_in_count + 1
    ELSE service.check_in_count

(* update_service: check_in_count of an existing record after an update    *)
(* to status; the increment is outside the test of status_changed          *)
CheckInCountAfter(service, status) == service.check_in_count + 1

UpdateServiceStoreTorn(svcs, service_name, status, message, metadata, current_time) ==
    IF service_name \in Keys(svcs)
    THEN [svcs EXCEPT ![IndexOf(svcs, service_name)] =
            [@ EXCEPT !.status = status,
                      !.last_check_in = current_time,
                      !.check_in_count =
                          CheckInCountAfter(Lookup(svcs, service_name), status),
                      !.metadata = IF Truthy(metadata)
                                   THEN DictUpdate(@, metadata.d)
                                   ELSE @]]
    ELSE Append(svcs,
            [service_name |-> service_name,
             status |-> status,
             last_check_in |-> current_time,
             message |-> message,
             metadata |-> IF Truthy(metadata) THEN metadata.d ELSE <<>>,
             check_in_count |-> 1])

\* update_service: the dict after the call at current_time
UpdateServiceStore(svcs, service_name, status, message, metadata, current_time) ==
    IF service_name \in Keys(svcs)
    THEN [svcs EXCEPT ![IndexOf(svcs, service_name)] =
            [@ EXCEPT !.status = status,
                      !.last_check_in = current_time,
                      !.message = message,
                      !.check_in_count =
                          CheckInCountAfter(Lookup(svcs, service_name), status),
                      !.metadata = IF Truthy(metadata)
                                   THEN DictUpdate(@, metadata.d)
                                   ELSE @]]
    ELSE Append(svcs,
            [service_name |-> service_name,
             status |-> status,
             last_check_in |-> current_time,
             message |-> message,
             metadata |-> IF Truthy(metadata) THEN metadata.d ELSE <<>>,
             check_in_count |-> 1])

PreviousStatusUnknown(svcs, service_name) ==
    IF service_name \in Keys(svcs) THEN Lookup(svcs, service_name).status ELSE UNKNOWN

\* update_service: previous_status before the return statement
PreviousStatus(svcs, service_name) ==
    IF service_name \in Keys(svcs) THEN Lookup(svcs, service_name).status ELSE None

UpdateServiceReturnsAlways(svcs, service_name, status) ==
    PreviousStatus(svcs, service_name)

\* update_service: the second component of the returned tuple
UpdateServiceReturns(svcs, service_name, status) ==
    LET previous_status == PreviousStatus(svcs, service_name)
    IN  IF previous_status # status THEN previous_status ELSE None

RemoveServiceStoreAll(svcs, service_name) ==
    IF service_name \in Keys(svcs) THEN <<>> ELSE svcs

\* remove_service: the dict after the call
RemoveServiceStore(svcs, service_name) ==
    SelectSeq(svcs, LAMBDA r : r.service_name # service_name)

IsStaleInclusive(service, timeout_seconds, current_time) ==
    /\ service.status \in {UP, DEGRADED}
    /\ Seconds(service.last_check_in) <= Seconds(current_time) - timeout_seconds

\* check_stale_services: the test of the loop body on one record
IsStale(service, timeout_seconds, current_time) ==
    /\ service.status \in {UP, DEGRADED}
    /\ Seconds(service.last_check_in) < Seconds(current_time) - timeout_seconds

CheckStaleStoreTouching(svcs, timeout_seconds, current_time) ==
    [i \in DOMAIN svcs |->
        IF IsStale(svcs[i], timeout_seconds, current_time)
        THEN [svcs[i] EXCEPT
                !.status = DOWN,
                !.last_check_in = current_time,
                !.message = StaleMessage(
                    Seconds(current_time) - Seconds(svcs[i].last_check_in),
                    timeout_seconds)]
        ELSE svcs[i]]

\* check_stale_services: the dict after the call at current_time
CheckStaleStore(svcs, timeout_seconds, current_time) ==
    [i \in DOMAIN svcs |->
        IF IsStale(svcs[i], timeout_seconds, current_time)
        THEN [svcs[i] EXCEPT
                !.status = DOWN,
                !.message = StaleMessage(
                    Seconds(current_time) - Seconds(svcs[i].last_check_in),
                    timeout_seconds)]
        ELSE svcs[i]]

RECURSIVE StaleFrom(_, _, _, _)
\* check_stale_services: stale_services, the (service, previous_status)
\* pairs appended from position i on, in the dict's order
StaleFrom(svcs, i, timeout_seconds, current_time) ==
    IF i > Len(svcs) THEN <<>>
    ELSE (IF IsStale(svcs[i], timeout_seconds, current_time)
          THEN <<[service_name |-> svcs[i].service_name,
                  previous_status |-> svcs[i].status]>>
          ELSE <<>>)
         \o StaleFrom(svcs, i + 1, timeout_seconds, current_time)

CheckStaleReturnsAnyLate(svcs, timeout_seconds, current_time) ==
    StaleFrom(svcs, 1, 0, current_time)

\* check_stale_services: the list it returns
CheckStaleReturns(svcs, timeout_seconds, current_time) ==
    StaleFrom(svcs, 1, timeout_seconds, current_time)

---------------------------------------------------------------------------
(* config.py: NotificationConfig *)

\* cooldown_minutes, as NOTIFICATION_COOLDOWN_MINUTES sets it
cooldown_minutes == 5

\* the configurations the model starts from; recipients is len(recipients)
Configs ==
    {[enabled |-> TRUE,  send_recovery_notifications |-> TRUE,  recipients |-> 1],
     [enabled |-> TRUE,  send_recovery_notifications |-> TRUE,  recipients |-> 0],
     [enabled |-> TRUE,  send_recovery_notifications |-> TRUE,  recipients |-> 2],
     [enabled |-> TRUE,  send_recovery_notifications |-> FALSE, recipients |-> 1],
     [enabled |-> FALSE, send_recovery_notifications |-> TRUE,  recipients |-> 1]}

DefaultConfig ==
    [enabled |-> TRUE, send_recovery_notifications |-> TRUE, recipients |-> 1]

---------------------------------------------------------------------------
(* References to ServiceInfo objects.  update_service and                  *)
(* check_stale_services return the objects the store holds, so a holder    *)
(* reads the record's current fields while the record is in the store      *)
(* (live).  remove_service drops the store's reference: the object then    *)
(* keeps the status it had (live = FALSE).  The object the test endpoint   *)
(* builds is never in the store.                                           *)

LiveRef(service_name) == [service_name |-> service_name, live |-> TRUE, status |-> None]
OwnRef(service_name, status) ==
    [service_name |-> service_name, live |-> FALSE, status |-> status]

\* service.status, read through a reference
StatusOf(svcs, ref) ==
    IF ref.live THEN Lookup(svcs, ref.service_name).status ELSE ref.status

\* what a reference to service_name becomes when remove_service deletes it
Detach(svcs, ref, service_name) ==
    IF ref.live /\ ref.service_name = service_name
    THEN OwnRef(service_name, Lookup(svcs, service_name).status)
    ELSE ref

---------------------------------------------------------------------------
(* notifications.py: EmailNotificationService *)

IsAlert(status) == status \in {DOWN, DEGRADED}

IsRecovery(previous_status, status) ==
    previous_status \in {DOWN, DEGRADED} /\ status = UP

CooldownInMinutes(entry, current_time) ==
    Seconds(current_time - entry.last_notification) < cooldown_minutes

CooldownInclusive(entry, current_time) ==
    Seconds(current_time - entry.last_notification) <= cooldown_minutes * 60

\* _should_send_notification: time_since_last < cooldown_minutes
CooldownActive(entry, current_time) ==
    Seconds(current_time - entry.last_notification) < cooldown_minutes * 60

NotificationsAlwaysEnabled(config) == TRUE

\* _should_send_notification: config.notifications.enabled
NotificationsEnabled(config) == config.enabled

RecoveryAlwaysWanted(config, is_recovery) == is_recovery

\* _should_send_notification: the elif that admits a recovery
RecoveryWanted(config, is_recovery) ==
    is_recovery /\ config.send_recovery_notifications

CooldownAppliesToAll(should_send, is_alert, has_history) ==
    should_send /\ has_history

\* _should_send_notification: the sends the cooldown check is applied to
CooldownApplies(should_send, is_alert, has_history) ==
    should_send /\ is_alert /\ has_history

\* _should_send_notification
ShouldSendNotification(config, hist, service_name, status, previous_status, current_time) ==
    IF ~NotificationsEnabled(config) THEN FALSE
    ELSE
      LET has_history == service_name \in DOMAIN hist
          previous == IF previous_status = None /\ has_history
                      THEN hist[service_name].last_status
                      ELSE previous_status
      IN  IF previous = status THEN FALSE
          ELSE
            LET is_recovery == IsRecovery(previous, status)
                is_alert == IsAlert(status)
                should_send == is_alert \/ RecoveryWanted(config, is_recovery)
            IN  IF ~should_send THEN FALSE
                ELSE IF /\ CooldownApplies(should_send, is_alert, has_history)
                        /\ CooldownActive(hist[service_name], current_time)
                THEN FALSE
                ELSE should_send

\* send_service_notification: the update of the notification history
RecordNotification(hist, service_name, status, current_time) ==
    IF service_name \in DOMAIN hist
    THEN [hist EXCEPT ![service_name] =
            [last_notification |-> current_time,
             last_status |-> status,
             notification_count |-> @.notification_count + 1]]
    ELSE [n \in DOMAIN hist \cup {service_name} |->
            IF n = service_name
            THEN [last_notification |-> current_time,
                  last_status |-> status,
                  notification_count |-> 1]
            ELSE hist[n]]

SendResultAllSucceeded(success_count) == success_count > 1

\* send_service_notification: success_count > 0
SendResult(success_count) == success_count > 0

FinishSendOnSuccess(hist, service_name, status, success_count, current_time) ==
    IF success_count > 0
    THEN RecordNotification(hist, service_name, status, current_time)
    ELSE hist

(* send_service_notification after the loop over the recipients: the       *)
(* history is written whatever success_count is                            *)
FinishSend(hist, service_name, status, success_count, current_time) ==
    RecordNotification(hist, service_name, status, current_time)

\* one entry of the log of finished calls: the history entry written
Done(service_name, status, is_recovery, success_count) ==
    [service_name |-> service_name, status |-> status,
     is_recovery |-> is_recovery, result |-> SendResult(success_count)]

(* a gate that records a suppressed transition as if it had been sent      *)
StartSendRecording(config, hist, snds, svcs, ref, previous_status, caller, current_time) ==
    LET status == StatusOf(svcs, ref)
        decided == ShouldSendNotification(config, hist, ref.service_name, status,
                                          previous_status, current_time)
        is_recovery == IsRecovery(previous_status, status)
        call == [service_name |-> ref.service_name,
                 previous_status |-> previous_status,
                 status |-> status, decided |-> decided]
    IN  IF ~decided \/ config.recipients = 0
        THEN [history |-> FinishSend(hist, ref.service_name, status, 0,
                                     current_time),
              sends |-> snds, suspended |-> FALSE, gate |-> <<call>>,
              done |-> IF decided
                       THEN <<Done(ref.service_name, status, is_recovery, 0)>>
                       ELSE <<>>]
        ELSE [history |-> hist,
              sends |-> Append(snds,
                          [ref |-> ref, previous_status |-> previous_status,
                           status |-> status,
                           is_recovery |-> is_recovery, caller |-> caller,
                           recipient |-> 0, success_count |-> 0]),
              suspended |-> TRUE, gate |-> <<call>>, done |-> <<>>]

(* send_service_notification, from its call to its first suspension:       *)
(* the decision, and either the whole call (no recipient to await) or a    *)
(* new entry of sends, whose status is the one the email content was       *)
(* generated with.  gate logs the transition handed over and the           *)
(* decision; done logs the call if it finished.                            *)
StartSend(config, hist, snds, svcs, ref, previous_status, caller, current_time) ==
    LET status == StatusOf(svcs, ref)
        decided == ShouldSendNotification(config, hist, ref.service_name, status,
                                          previous_status, current_time)
        is_recovery == IsRecovery(previous_status, status)
        call == [service_name |-> ref.service_name,
                 previous_status |-> previous_status,
                 status |-> status, decided |-> decided]
    IN  IF ~decided
        THEN [history |-> hist, sends |-> snds, suspended |-> FALSE,
              gate |-> <<call>>, done |-> <<>>]
        ELSE IF config.recipients = 0
        THEN [history |-> FinishSend(hist, ref.service_name, status, 0,
                                     current_time),
              sends |-> snds, suspended |-> FALSE, gate |-> <<call>>,
              done |-> <<Done(ref.service_name, status, is_recovery, 0)>>]
        ELSE [history |-> hist,
              sends |-> Append(snds,
                          [ref |-> ref, previous_status |-> previous_status,
                           status |-> status,
                           is_recovery |-> is_recovery, caller |-> caller,
                           recipient |-> 0, success_count |-> 0]),
              suspended |-> TRUE, gate |-> <<call>>, done |-> <<>>]

(* send_service_notification raises an Exception to its caller before it  *)
(* awaits or writes anything: the transition was handed over, nothing was  *)
(* decided                                                                 *)
RaisedSend(hist, snds, svcs, ref, previous_status) ==
    [history |-> hist, sends |-> snds, suspended |-> FALSE,
     gate |-> <<[service_name |-> ref.service_name,
                 previous_status |-> previous_status,
                 status |-> StatusOf(svcs, ref), decided |-> FALSE,
                 raised |-> TRUE]>>,
     done |-> <<>>]

RECURSIVE NotifyStaleAborting(_, _, _, _, _, _)
NotifyStaleAborting(config, hist, snds, svcs, batch, current_time) ==
    IF batch = <<>>
    THEN [history |-> hist, sends |-> snds, suspended |-> FALSE,
          gate |-> <<>>, done |-> <<>>, batch |-> <<>>]
    ELSE
      LET r == IF Head(batch).raises
               THEN RaisedSend(hist, snds, svcs, Head(batch).ref,
                               Head(batch).previous_status)
               ELSE StartSend(config, hist, snds, svcs, Head(batch).ref,
                              Head(batch).previous_status, "sweeper",
                              current_time)
      IN  IF Head(batch).raises
          THEN [history |-> r.history, sends |-> r.sends, suspended |-> FALSE,
                gate |-> r.gate, done |-> r.done, batch |-> <<>>]
          ELSE IF r.suspended
          THEN [history |-> r.history, sends |-> r.sends, suspended |-> TRUE,
                gate |-> r.gate, done |-> r.done, batch |-> Tail(batch)]
          ELSE LET k == NotifyStaleAborting(config, r.history, r.sends, svcs,
                                            Tail(batch), current_time)
               IN  [k EXCEPT !.gate = r.gate \o @, !.done = r.done \o @]

RECURSIVE NotifyStale(_, _, _, _, _, _)
(* check_stale_services_loop: the for loop over stale_services, from the   *)
(* entry at the head of batch up to the first call that suspends; the      *)
(* except clause inside the loop logs a call that raises (raises of the    *)
(* entry) and the loop goes on                                             *)
NotifyStale(config, hist, snds, svcs, batch, current_time) ==
    IF batch = <<>>
    THEN [history |-> hist, sends |-> snds, suspended |-> FALSE,
          gate |-> <<>>, done |-> <<>>, batch |-> <<>>]
    ELSE
      LET r == IF Head(batch).raises
               THEN RaisedSend(hist, snds, svcs, Head(batch).ref,
                               Head(batch).previous_status)
               ELSE StartSend(config, hist, snds, svcs, Head(batch).ref,
                              Head(batch).previous_status, "sweeper",
                              current_time)
      IN  IF r.suspended
          THEN [history |-> r.history, sends |-> r.sends, suspended |-> TRUE,
                gate |-> r.gate, done |-> r.done, batch |-> Tail(batch)]
          ELSE LET k == NotifyStale(config, r.history, r.sends, svcs, Tail(batch),
                                    current_time)
               IN  [k EXCEPT !.gate = r.gate \o @, !.done = r.done \o @]

(* send_service_notification: one turn of the loop over the recipients.    *)
(* ok is what _send_email returned after its retry loop: True for a POST   *)
(* answered with success, False after retry_attempts failures.             *)
AfterEmail(send, ok) ==
    [send EXCEPT !.recipient = @ + 1,
                 !.success_count = IF ok THEN @ + 1 ELSE @]

---------------------------------------------------------------------------
(* The inputs the model draws *)

Messages == {NoMessage, TextMessage("m")}
Metadatas == {NoMetadata}
Timeouts == {0, 150, 300}

---------------------------------------------------------------------------
(* What a step reports in ret *)

Ret(op, service_name, status, previous_status, flag, stale_services, gate, done) ==
    [op |-> op, service_name |-> service_name, status |-> status,
     previous_status |-> previous_status, flag |-> flag,
     stale_services |-> stale_services, gate |-> gate, done |-> done]

NoRet(op) == Ret(op, None, None, None, FALSE, <<>>, <<>>, <<>>)

(* clock with the time of the history writes of done, or only of those of  *)
(* the alerts that reached a recipient                                     *)
Stamped(clock, done, alerts_only, current_time) ==
    LET written == {done[i].service_name : i \in
                      {j \in DOMAIN done :
                          alerts_only => (~done[j].is_recovery /\ done[j].result)}}
    IN  [n \in DOMAIN clock \cup written |->
            IF n \in written THEN current_time ELSE clock[n]]

(* The observer.  When it is tracking, attempted[n] is the time of the     *)
(* last write of n's history entry and alerted[n] the time of the last     *)
(* write made by an alert notification that reached a recipient (done      *)
(* logs the writes of a step).                                             *)
(* No action reads it, and clear_notification_history leaves it alone.     *)
Stamp(obs, done, current_time) ==
    IF obs.tracking
    THEN [obs EXCEPT !.attempted = Stamped(@, done, FALSE, current_time),
                     !.alerted = Stamped(@, done, TRUE, current_time)]
    ELSE obs

---------------------------------------------------------------------------
(* The store's operations, called as the tests of test_storage.py call them *)

InitWith(configs, tracking, managers) ==
    /\ now = 0
    /\ services = <<>>
    /\ cfg \in configs
    /\ history = <<>>
    /\ sends = <<>>
    /\ sweeper = [pc |-> "sleep", started |-> 0, batch |-> <<>>]
    /\ observer = [tracking |-> tracking, attempted |-> <<>>, alerted |-> <<>>]
    /\ manager \in managers
    /\ probes = <<>>
    /\ app = [shutdown |-> "running", client |-> TRUE]
    /\ ret = NoRet("init")

(* the manager after startup_event, when no configuration file exists;     *)
(* client is whether _client is an open client                             *)
NoTargets ==
    [started |-> TRUE, services |-> <<>>, check_tasks |-> <<>>, orphans |-> {},
     client |-> FALSE]

gate_vars == <<cfg, history, sends, sweeper, observer, app>>

poll_vars == <<manager, probes, app>>

\* time passes
Tick ==
    /\ now < MaxTime
    /\ now' = now + 1
    /\ ret' = NoRet("tick")
    /\ UNCHANGED <<services, gate_vars, poll_vars>>

GetServiceCountNotDown(svcs) ==
    Len(SelectSeq(svcs, LAMBDA service : service.status # DOWN))

\* get_service_count: len(self._services)
GetServiceCount(svcs) == Len(svcs)

\* update_service; ret.metadata is the metadata argument of the call
update_service(service_name, status, message, metadata) ==
    /\ service_name \in Keys(services)
          => Lookup(services, service_name).check_in_count < MaxCount
    /\ services' = UpdateServiceStore(services, service_name, status, message,
                                      metadata, now)
    /\ ret' = Ret("update_service", service_name, status,
                  UpdateServiceReturns(services, service_name, status),
                  FALSE, <<>>, <<>>, <<>>) @@ [metadata |-> metadata]
    /\ UNCHANGED <<now, gate_vars, poll_vars>>

remove_service_and_history(service_name) ==
    /\ services' = RemoveServiceStore(services, service_name)
    /\ history' = [n \in DOMAIN history \ {service_name} |-> history[n]]
    /\ sends' = [k \in DOMAIN sends |->
                   [sends[k] EXCEPT !.ref = Detach(services, @, service_name)]]
    /\ sweeper' = [sweeper EXCEPT !.batch =
                     [i \in DOMAIN @ |->
                        [@[i] EXCEPT !.ref = Detach(services, @, service_name)]]]
    /\ ret' = Ret("remove_service", service_name, None, None,
                  service_name \in Keys(services), <<>>, <<>>, <<>>)
    /\ UNCHANGED <<now, cfg, observer, poll_vars>>

\* remove_service; the references held to the deleted object are detached
remove_service(service_name) ==
    /\ services' = RemoveServiceStore(services, service_name)
    /\ sends' = [k \in DOMAIN sends |->
                   [sends[k] EXCEPT !.ref = Detach(services, @, service_name)]]
    /\ sweeper' = [sweeper EXCEPT !.batch =
                     [i \in DOMAIN @ |->
                        [@[i] EXCEPT !.ref = Detach(services, @, service_name)]]]
    /\ ret' = Ret("remove_service", service_name, None, None,
                  service_name \in Keys(services), <<>>, <<>>, <<>>)
    /\ UNCHANGED <<now, cfg, history, observer, poll_vars>>

\* check_stale_services; ret.timeout_seconds is the argument of the call
check_stale_services(timeout_seconds) ==
    /\ services' = CheckStaleStore(services, timeout_seconds, now)
    /\ ret' = Ret("check_stale_services", None, None, None, FALSE,
                  CheckStaleReturns(services, timeout_seconds, now), <<>>, <<>>)
                 @@ [timeout_seconds |-> timeout_seconds]
    /\ UNCHANGED <<now, gate_vars, poll_vars>>

StoreInit == InitWith({DefaultConfig}, FALSE, {NoTargets})

StoreNext ==
    \/ Tick
    \/ \E n \in ServiceNames, s \in ServiceStatus, m \in Messages, md \in Metadatas :
          update_service(n, s, m, md)
    \/ \E n \in ServiceNames : remove_service(n)
    \/ \E t \in Timeouts : check_stale_services(t)

StoreSpec == StoreInit /\ [][StoreNext]_vars

(* update_service called with metadata, as test_update_service_metadata_merge *)
(* calls it: with None, with {} and with dicts that share keys or not         *)
MetadataInputs ==
    {NoMetadata, Dict(<<>>),
     Dict([a |-> "1", b |-> "2"]), Dict([b |-> "3", c |-> "4"]),
     Dict([c |-> "5"])}

MetadataNext ==
    \/ Tick
    \/ \E n \in ServiceNames, s \in {UP, DOWN}, md \in MetadataInputs :
          update_service(n, s, NoMessage, md)
    \/ \E n \in ServiceNames : remove_service(n)
    \/ check_stale_services(DEFAULT_CHECKIN_TIMEOUT_SECONDS)

MetadataSpec == StoreInit /\ [][MetadataNext]_vars

---------------------------------------------------------------------------
(* main.py: the handlers and the stale sweeper *)

SWEEP_INTERVAL_SECONDS == 30
SWEEP_TIMEOUT_SECONDS == 150

(* the calls in flight and the history stay within the model's bounds; a   *)
(* specification that follows one call at a time says so in its Next       *)
WithinBounds(hist, snds) ==
    /\ Len(snds) <= Cardinality(RaceSlots)
    /\ \A n \in DOMAIN hist : hist[n].notification_count <= MaxNotifications

\* what a handler that makes no call of the gate contributes
NoSend == [history |-> history, sends |-> sends, suspended |-> FALSE,
           gate |-> <<>>, done |-> <<>>]

(* str.strip, on the names the model draws: the name without its leading   *)
(* and trailing whitespace                                                 *)
Strip(name) == CASE name = " " -> "" [] OTHER -> name

HandlerResponseFailing(gate_raised) == IF gate_raised THEN "500" ELSE "201"

(* service_checkin: the status code of the response once update_service    *)
(* has returned; the try block around send_service_notification logs an    *)
(* exception of the gate and the handler returns service_info              *)
HandlerResponse(gate_raised) == "201"

(* POST /services/checkin, up to the first suspension; ret.flag is TRUE    *)
(* for the 400 of a blank name.  gate_raises: send_service_notification    *)
(* raises an Exception.  ret.response is the status code of the response,  *)
(* or "pending" while the handler awaits the emails.                       *)
service_checkin(service_name, status, message, metadata, gate_raises) ==
    LET svcs == UpdateServiceStore(services, service_name, status, message,
                                   metadata, now)
        previous_status == UpdateServiceReturns(services, service_name, status)
        r == IF previous_status = None THEN NoSend
             ELSE IF gate_raises
             THEN RaisedSend(history, sends, svcs, LiveRef(service_name),
                             previous_status)
             ELSE StartSend(cfg, history, sends, svcs, LiveRef(service_name),
                            previous_status, "handler", now)
    IN  IF Strip(service_name) = ""
        THEN /\ ~gate_raises
             /\ ret' = Ret("service_checkin", service_name, status, None,
                           TRUE, <<>>, <<>>, <<>>) @@ [response |-> "400"]
             /\ UNCHANGED <<now, services, gate_vars, poll_vars>>
        ELSE /\ gate_raises => previous_status # None
             /\ service_name \in Keys(services)
                   => Lookup(services, service_name).check_in_count < MaxCount
             /\ WithinBounds(r.history, r.sends)
             /\ services' = svcs
             /\ history' = r.history
             /\ sends' = r.sends
             /\ observer' = Stamp(observer, r.done, now)
             /\ ret' = Ret("service_checkin", service_name, status,
                           previous_status, FALSE, <<>>, r.gate, r.done)
                          @@ [response |-> IF r.suspended THEN "pending"
                                           ELSE HandlerResponse(gate_raises)]
             /\ UNCHANGED <<now, cfg, sweeper, poll_vars>>

\* POST /notifications/test, up to the first suspension
send_test_notification(service_name) ==
    LET r == StartSend(cfg, history, sends, services, OwnRef(service_name, DOWN),
                       UP, "handler", now)
    IN  /\ WithinBounds(r.history, r.sends)
        /\ history' = r.history
        /\ sends' = r.sends
        /\ observer' = Stamp(observer, r.done, now)
        /\ ret' = Ret("send_test_notification", service_name, DOWN, UP,
                      FALSE, <<>>, r.gate, r.done)
        /\ UNCHANGED <<now, services, cfg, sweeper, poll_vars>>

ClearHistoryAll(hist, service_name) == <<>>

(* clear_notification_history: the history after the call; None and the    *)
(* empty string are falsy                                                  *)
ClearHistory(hist, service_name) ==
    IF service_name \notin {None, ""}
    THEN [n \in DOMAIN hist \ {service_name} |-> hist[n]]
    ELSE <<>>

\* DELETE /notifications/history/{service_name} and DELETE /notifications/history
clear_notification_history(service_name) ==
    /\ history' = ClearHistory(history, service_name)
    /\ ret' = Ret("clear_notification_history", service_name, None, None,
                  FALSE, <<>>, <<>>, <<>>)
    /\ UNCHANGED <<now, services, cfg, sends, sweeper, observer, poll_vars>>

\* the sweeper after its for loop ran as far as r says
SweeperAfter(r, current_time) ==
    IF r.suspended
    THEN [pc |-> "notify", started |-> 0, batch |-> r.batch]
    ELSE [pc |-> "sleep", started |-> current_time, batch |-> <<>>]

(* check_stale_services_loop: asyncio.sleep(30) returns, the store is      *)
(* swept and the transitions are handed to the gate up to the first call   *)
(* that suspends.  sweep_raises: check_stale_services raises an Exception, *)
(* which the outer except clause logs; raising: the services for which     *)
(* send_service_notification raises.  ret.flag is sweep_raises.            *)
check_stale_services_loop(sweep_raises, raising) ==
    LET stale == CheckStaleReturns(services, SWEEP_TIMEOUT_SECONDS, now)
        svcs == CheckStaleStore(services, SWEEP_TIMEOUT_SECONDS, now)
        batch == [i \in DOMAIN stale |->
                    [ref |-> LiveRef(stale[i].service_name),
                     previous_status |-> stale[i].previous_status,
                     raises |-> stale[i].service_name \in raising]]
        r == NotifyStale(cfg, history, sends, svcs, batch, now)
    IN  /\ sweeper.pc = "sleep"
        /\ Seconds(now - sweeper.started) >= SWEEP_INTERVAL_SECONDS
        /\ IF sweep_raises
           THEN /\ sweeper' = [sweeper EXCEPT !.started = now]
                /\ ret' = Ret("check_stale_services_loop", None, None,
                              None, TRUE, <<>>, <<>>, <<>>)
                             @@ [timeout_seconds |-> SWEEP_TIMEOUT_SECONDS]
                /\ UNCHANGED <<services, history, sends, observer>>
           ELSE /\ WithinBounds(r.history, r.sends)
                /\ services' = svcs
                /\ history' = r.history
                /\ sends' = r.sends
                /\ sweeper' = SweeperAfter(r, now)
                /\ observer' = Stamp(observer, r.done, now)
                /\ ret' = Ret("check_stale_services_loop", None, None,
                              None, FALSE, stale, r.gate, r.done)
                             @@ [timeout_seconds |-> SWEEP_TIMEOUT_SECONDS]
        /\ UNCHANGED <<now, cfg, poll_vars>>

\* sends without its k-th entry
Without(snds, k) == SubSeq(snds, 1, k - 1) \o SubSeq(snds, k + 1, Len(snds))

(* _send_email returns ok to the k-th call in flight.  After the last      *)
(* recipient the call writes the history and returns to its caller; the    *)
(* sweeper then goes on with its for loop, the check-in handler returns    *)
(* its response (ret.response).  ret.reported is the status the emails of  *)
(* the call reported.                                                      *)
send_email(k, ok) ==
    LET send == AfterEmail(sends[k], ok)
        finished == send.recipient >= cfg.recipients
        status == StatusOf(services, send.ref)
        written == FinishSend(history, send.ref.service_name, status,
                              send.success_count, now)
        done == <<Done(send.ref.service_name, status, send.is_recovery,
                       send.success_count)>>
        r == IF finished /\ send.caller = "sweeper"
             THEN NotifyStale(cfg, written, Without(sends, k), services,
                              sweeper.batch, now)
             ELSE [history |-> written, sends |-> Without(sends, k),
                   suspended |-> FALSE, gate |-> <<>>, done |-> <<>>,
                   batch |-> <<>>]
    IN  /\ k \in DOMAIN sends
        /\ sends[k].caller = "sweeper" => sweeper.pc = "notify"
        /\ IF finished
           THEN /\ WithinBounds(r.history, r.sends)
                /\ history' = r.history
                /\ sends' = r.sends
                /\ sweeper' = IF send.caller = "sweeper"
                              THEN SweeperAfter(r, now)
                              ELSE sweeper
                /\ observer' = Stamp(observer, done \o r.done, now)
                /\ ret' = Ret("send_email", send.ref.service_name, status,
                              send.previous_status, ok, <<>>, r.gate,
                              done \o r.done)
                             @@ [response |-> IF send.caller = "handler"
                                              THEN HandlerResponse(FALSE)
                                              ELSE None,
                                 reported |-> send.status]
           ELSE /\ sends' = [sends EXCEPT ![k] = send]
                /\ ret' = Ret("send_email", send.ref.service_name, None,
                              send.previous_status, ok, <<>>, <<>>, <<>>)
                             @@ [response |-> IF send.caller = "handler"
                                              THEN "pending" ELSE None,
                                 reported |-> send.status]
                /\ UNCHANGED <<history, sweeper, observer>>
        /\ UNCHANGED <<now, services, cfg, poll_vars>>

\* the service the handlers and the sweeper are followed for
Monitored == {"a"}

Init == InitWith(Configs, FALSE, {NoTargets})

Next ==
  /\
    \/ Tick
    \/ \E n \in Monitored, s \in ServiceStatus :
          service_checkin(n, s, NoMessage, NoMetadata, FALSE)
    \/ \E n \in Monitored : remove_service(n)
    \/ \E n \in Monitored \cup {None} : clear_notification_history(n)
    \/ check_stale_services_loop(FALSE, {})
    \/ \E k \in SendSlots, ok \in BOOLEAN : send_email(k, ok)
  /\ Len(sends') <= Cardinality(SendSlots)

Spec == Init /\ [][Next]_vars

(* The same handlers without the sweeper, under the default configuration  *)
(* and with the observer tracking.                                         *)
CooldownInit == InitWith({DefaultConfig}, TRUE, {NoTargets})

CooldownNext ==
  /\
    \/ Tick
    \/ \E n \in Monitored, s \in ServiceStatus :
          service_checkin(n, s, NoMessage, NoMetadata, FALSE)
    \/ \E n \in Monitored : remove_service(n)
    \/ \E n \in Monitored \cup {None} : clear_notification_history(n)
    \/ \E k \in SendSlots, ok \in BOOLEAN : send_email(k, ok)
  /\ Len(sends') <= Cardinality(SendSlots)

CooldownSpec == CooldownInit /\ [][CooldownNext]_vars

---------------------------------------------------------------------------
(* monitored_services.py: the polled targets, and their handlers in main.py *)

DEFAULT_CHECK_INTERVAL_SECONDS == 60
DEFAULT_PROBE_TIMEOUT_SECONDS == 10
DEFAULT_EXPECTED_STATUS_CODE == 200

\* the calls of check_monitored_service that may await a probe at a time
ProbeSlots == {1}

\* MonitoredService
MonitoredService(name, expected_status_code, enabled, check_response_body, expected_body_content) ==
    [name |-> name, health_url |-> name,
     check_interval_seconds |-> DEFAULT_CHECK_INTERVAL_SECONDS,
     timeout_seconds |-> DEFAULT_PROBE_TIMEOUT_SECONDS,
     expected_status_code |-> expected_status_code,
     enabled |-> enabled,
     check_response_body |-> check_response_body,
     expected_body_content |-> expected_body_content]

(* expected_body_content, an Optional[str]: None, or a text as the         *)
(* sequence of its characters                                             *)
NoContent == [isNone |-> TRUE, text |-> <<>>]
Content(text) == [isNone |-> FALSE, text |-> text]

\* bool(content): None and "" are false
ContentTruthy(content) == ~content.isNone /\ content.text # <<>>

ContainsWhole(sub, body) == sub = body

\* sub in body, for two strs
Contains(sub, body) ==
    \E i \in 1..(Len(body) + 1) :
       /\ i + Len(sub) - 1 <= Len(body)
       /\ \A j \in 1..Len(sub) : body[i + j - 1] = sub[j]

\* the configurations a request may carry for a target
TargetConfigs(name) ==
    {MonitoredService(name, code, enabled, FALSE, NoContent) :
        code \in {DEFAULT_EXPECTED_STATUS_CODE, 204}, enabled \in BOOLEAN}

(* What client.get does: it returns a response (its status code and its    *)
(* text, a sequence of characters) or raises.                              *)
Response(status_code, body) ==
    [kind |-> "response", status_code |-> status_code, body |-> body]
Raises(kind) == [kind |-> kind, status_code |-> 0, body |-> <<>>]
ProbeOutcomes ==
    {Response(DEFAULT_EXPECTED_STATUS_CODE, <<"o", "k">>),
     Response(DEFAULT_EXPECTED_STATUS_CODE, <<>>),
     Response(500, <<>>),
     Raises("TimeoutException"), Raises("ConnectError"), Raises("Exception")}

\* what client.get raises into a task that was cancelled while awaiting it
Cancelled == Raises("CancelledError")

CaughtAsBaseException(kind) == kind # "response"

\* a check_service_health without its last clause
CaughtAsNone(kind) == FALSE

(* check_service_health: the exceptions its last clause, except Exception, *)
(* catches; asyncio.CancelledError is a BaseException and is not one       *)
CaughtAsException(kind) ==
    kind \in {"TimeoutException", "ConnectError", "Exception"}

(* check_service_health, from the return of client.get on; raised says     *)
(* that the exception of client.get leaves the function                    *)
check_service_health(service, outcome, checked_at) ==
    LET metadata == [health_url |-> service.health_url,
                     checked_at |-> ToString(checked_at),
                     http_status_code |-> ToString(outcome.status_code),
                     response_time_ms |-> "ms"]
        result(status, message, md) ==
            [raised |-> FALSE, status |-> status, message |-> message,
             metadata |-> Dict(md)]
    IN  CASE outcome.kind = "TimeoutException" ->
               result(DOWN, Format("Health check timed out after {}s",
                                   <<service.timeout_seconds>>),
                      [error |-> "timeout"])
          [] outcome.kind = "ConnectError" ->
               result(DOWN, TextMessage("Cannot connect to service"),
                      [error |-> "connection_error"])
          [] outcome.kind # "response" /\ CaughtAsException(outcome.kind) ->
               result(DOWN, TextMessage("Unexpected error"),
                      [error |-> "unexpected_error"])
          [] outcome.kind # "response" /\ ~CaughtAsException(outcome.kind) ->
               [raised |-> TRUE, status |-> None, message |-> NoMessage,
                metadata |-> NoMetadata]
          [] OTHER ->
               IF outcome.status_code # service.expected_status_code
               THEN result(DEGRADED, Format("HTTP {} (expected {})",
                              <<outcome.status_code, service.expected_status_code>>),
                           metadata)
               ELSE IF /\ service.check_response_body
                       /\ ContentTruthy(service.expected_body_content)
                       /\ ~Contains(service.expected_body_content.text,
                                    outcome.body)
               THEN result(DEGRADED,
                           TextMessage("Response body missing expected content"),
                           metadata)
               ELSE result(UP, Format("Health check passed ({})",
                                      <<outcome.status_code>>), metadata)

(* A task of _monitor_service_loop: the configuration it was created with, *)
(* where it is, since when, and whether cancel() was called on it and the  *)
(* CancelledError is still to be raised in it.  manager.check_tasks holds  *)
(* the tasks by name; manager.orphans are the tasks of the event loop that *)
(* check_tasks holds no more.                                              *)
NewTask(service) ==
    [service |-> service, pc |-> "ready", since |-> 0, cancelled |-> FALSE]

\* task.cancel()
Cancel(task) == [task EXCEPT !.cancelled = TRUE]

\* the tasks of m that have not ended
Tasks(m) ==
    {task \in {m.check_tasks[n] : n \in DOMAIN m.check_tasks} \cup m.orphans :
        task.pc # "done"}

\* the tasks that can still write to the store
LiveTasks(m) == {task \in Tasks(m) : ~task.cancelled}

StartMonitoringAgain(m) ==
    LET enabled == {n \in DOMAIN m.services : m.services[n].enabled}
    IN  [m EXCEPT
           !.check_tasks = [n \in DOMAIN @ \cup enabled |->
                              IF n \in enabled THEN NewTask(m.services[n])
                              ELSE @[n]],
           !.orphans = @ \cup {m.check_tasks[n] : n \in DOMAIN m.check_tasks \cap enabled}]

\* start_monitoring: the manager after the call
StartMonitoring(m) ==
    LET started == {n \in DOMAIN m.services :
                      m.services[n].enabled /\ n \notin DOMAIN m.check_tasks}
    IN  [m EXCEPT !.check_tasks = [n \in DOMAIN @ \cup started |->
                                     IF n \in started THEN NewTask(m.services[n])
                                     ELSE @[n]]]

\* the cancel and del of stop_monitoring(service_name) and of remove_service
CancelTask(m, name) ==
    IF name \in DOMAIN m.check_tasks
    THEN [m EXCEPT !.check_tasks = [n \in DOMAIN @ \ {name} |-> @[n]],
                   !.orphans = @ \cup {Cancel(m.check_tasks[name])}]
    ELSE m

\* stop_monitoring: the manager after the call; None stops all
StopMonitoring(m, service_name) ==
    IF service_name # None
    THEN CancelTask(m, service_name)
    ELSE [m EXCEPT !.check_tasks = <<>>,
                   !.orphans = @ \cup {Cancel(m.check_tasks[n]) :
                                         n \in DOMAIN m.check_tasks}]

\* add_service: the manager after the call
AddService(m, service) ==
    [m EXCEPT !.services = [n \in DOMAIN @ \cup {service.name} |->
                              IF n = service.name THEN service ELSE @[n]]]

\* remove_service of the manager: the manager after the call
RemoveTarget(m, name) ==
    IF name \in DOMAIN m.services
    THEN [CancelTask(m, name) EXCEPT
            !.services = [n \in DOMAIN @ \ {name} |-> @[n]]]
    ELSE m

\* the manager as constructed: _load_config has read the configuration file
Loaded(names) ==
    {[NoTargets EXCEPT !.started = FALSE]}
    \cup UNION {{[NoTargets EXCEPT !.started = FALSE,
                                    !.services = [n \in {name} |-> service]] :
                    service \in TargetConfigs(name)} : name \in names}

\* startup_event: start_monitoring for the targets of the file
startup_event ==
    /\ ~manager.started
    /\ manager' = [StartMonitoring(manager) EXCEPT !.started = TRUE]
    /\ ret' = NoRet("startup_event")
    /\ UNCHANGED <<now, services, gate_vars, probes>>

\* POST /monitored-services
add_monitored_service(service) ==
    LET added == AddService(manager, service)
    IN  /\ manager.started
        /\ manager' = IF service.enabled THEN StartMonitoring(added) ELSE added
        /\ ret' = Ret("add_monitored_service", service.name, None, None, TRUE,
                      <<>>, <<>>, <<>>)
        /\ UNCHANGED <<now, services, gate_vars, probes>>

\* PUT /monitored-services/{service_name}; ret.flag is FALSE for a 400 or 404
update_monitored_service(service_name, service) ==
    LET accepted == /\ service.name = service_name
                    /\ service_name \in DOMAIN manager.services
        added == AddService(StopMonitoring(manager, service_name), service)
    IN  /\ manager.started
        /\ manager' = IF ~accepted THEN manager
                      ELSE IF service.enabled THEN StartMonitoring(added)
                      ELSE added
        /\ ret' = Ret("update_monitored_service", service_name, None, None,
                      accepted, <<>>, <<>>, <<>>)
        /\ UNCHANGED <<now, services, gate_vars, probes>>

\* a DELETE that drops the record of the target from the store as well
delete_monitored_service_and_record(service_name) ==
    /\ manager.started
    /\ manager' = RemoveTarget(StopMonitoring(manager, service_name), service_name)
    /\ services' = RemoveServiceStore(services, service_name)
    /\ sends' = [k \in DOMAIN sends |->
                   [sends[k] EXCEPT !.ref = Detach(services, @, service_name)]]
    /\ sweeper' = [sweeper EXCEPT !.batch =
                     [i \in DOMAIN @ |->
                        [@[i] EXCEPT !.ref = Detach(services, @, service_name)]]]
    /\ ret' = Ret("delete_monitored_service", service_name, None, None,
                  service_name \in DOMAIN manager.services, <<>>, <<>>, <<>>)
    /\ UNCHANGED <<now, cfg, history, observer, app, probes>>

\* DELETE /monitored-services/{service_name}; ret.flag is FALSE for a 404
delete_monitored_service(service_name) ==
    /\ manager.started
    /\ manager' = RemoveTarget(StopMonitoring(manager, service_name), service_name)
    /\ ret' = Ret("delete_monitored_service", service_name, None, None,
                  service_name \in DOMAIN manager.services, <<>>, <<>>, <<>>)
    /\ UNCHANGED <<now, services, gate_vars, probes>>

\* the manager after a task of it ran on and became next
Resumed(m, task, next) ==
    LET name == task.service.name
    IN  IF name \in DOMAIN m.check_tasks /\ m.check_tasks[name] = task
        THEN [m EXCEPT !.check_tasks[name] = next]
        ELSE [m EXCEPT !.orphans = (@ \ {task}) \cup {next}]

\* the manager after a task of it ended; the event loop drops an orphan
Ended(m, task) ==
    LET name == task.service.name
    IN  IF name \in DOMAIN m.check_tasks /\ m.check_tasks[name] = task
        THEN [m EXCEPT !.check_tasks[name] =
                          [task EXCEPT !.pc = "done", !.cancelled = FALSE]]
        ELSE [m EXCEPT !.orphans = @ \ {task}]

\* get_client: the manager with its client, created if there was none
GetClient(m) == [m EXCEPT !.client = TRUE]

(* _monitor_service_loop: the task starts, or its asyncio.sleep returns,   *)
(* and it runs up to the await of client.get                               *)
monitor_service_loop(task) ==
    /\ task \in Tasks(manager)
    /\ ~task.cancelled
    /\ \/ task.pc = "ready"
       \/ /\ task.pc = "sleep"
          /\ Seconds(now - task.since) >= task.service.check_interval_seconds
    /\ manager' = GetClient(Resumed(manager, task,
                                    [task EXCEPT !.pc = "get", !.since = now]))
    /\ ret' = NoRet("check_service_health")
    /\ UNCHANGED <<now, services, gate_vars, probes>>

(* _monitor_service_loop: CancelledError is raised in a cancelled task     *)
(* that had not started or was in asyncio.sleep, and ends it; ret.status   *)
(* is where the task was                                                   *)
monitor_service_cancelled(task) ==
    /\ task \in Tasks(manager)
    /\ task.cancelled
    /\ task.pc \in {"ready", "sleep"}
    /\ manager' = Ended(manager, task)
    /\ ret' = Ret("CancelledError", task.service.name, task.pc, None, TRUE,
                  <<>>, <<>>, <<>>)
    /\ UNCHANGED <<now, services, gate_vars, probes>>

LoopContainsNothing(kind) == FALSE

(* _monitor_service_loop: the exceptions of an iteration that its clause   *)
(* except Exception logs; CancelledError is re-raised                      *)
LoopContains(kind) == kind # "CancelledError"

(* _monitor_service_loop: client.get returns or raises (CancelledError in  *)
(* a cancelled task).  The task calls update_service and sleeps, or an     *)
(* exception leaves the try block: one of check_service_health, or one of  *)
(* update_service (store_raises).  The loop logs it and sleeps, or it ends *)
(* the task.  ret.previous_status is what update_service returns to the    *)
(* task, ret.flag whether the task was cancelled, ret.outcome what         *)
(* client.get did, ret.metadata the metadata check_service_health returned *)
(* and ret.store_raises what update_service did; after an                  *)
(* exception ret.op is its kind and ret.status where the task was.         *)
monitor_service_update(task, outcome, store_raises) ==
    LET service == task.service
        r == check_service_health(service, outcome, task.since)
        escaped == IF r.raised THEN outcome.kind
                   ELSE IF store_raises THEN "Exception" ELSE None
    IN  /\ task \in Tasks(manager)
        /\ task.pc = "get"
        /\ task.cancelled <=> outcome = Cancelled
        /\ IF escaped # None
           THEN /\ manager' = IF LoopContains(escaped)
                               THEN Resumed(manager, task,
                                       [task EXCEPT !.pc = "sleep", !.since = now])
                               ELSE Ended(manager, task)
                /\ ret' = Ret(escaped, service.name, task.pc, None,
                              task.cancelled, <<>>, <<>>, <<>>)
                             @@ [outcome |-> outcome.kind,
                                 store_raises |-> store_raises]
                /\ UNCHANGED services
           ELSE /\ service.name \in Keys(services)
                      => Lookup(services, service.name).check_in_count < MaxCount
                /\ services' = UpdateServiceStore(services, service.name, r.status,
                                                  r.message, r.metadata, now)
                /\ manager' = Resumed(manager, task,
                                 [task EXCEPT !.pc = "sleep", !.since = now,
                                              !.cancelled = FALSE])
                /\ ret' = Ret("_monitor_service_loop", service.name, r.status,
                              UpdateServiceReturns(services, service.name, r.status),
                              task.cancelled, <<>>, <<>>, <<>>)
                             @@ [outcome |-> outcome.kind,
                                 store_raises |-> store_raises,
                                 metadata |-> r.metadata]
        /\ UNCHANGED <<now, gate_vars, probes>>

(* POST /monitored-services/{service_name}/check, up to the await of       *)
(* client.get; ret.flag is FALSE for a 404                                 *)
check_monitored_service(service_name) ==
    LET found == service_name \in DOMAIN manager.services
    IN  /\ manager.started
        /\ found => Len(probes) < Cardinality(ProbeSlots)
        /\ probes' = IF found
                     THEN Append(probes, [service |-> manager.services[service_name],
                                          since |-> now])
                     ELSE probes
        /\ manager' = IF found THEN GetClient(manager) ELSE manager
        /\ ret' = Ret("check_service_health", service_name, None, None, found,
                      <<>>, <<>>, <<>>)
        /\ UNCHANGED <<now, services, gate_vars>>

(* check_monitored_service: client.get returns or raises to the k-th call, *)
(* which calls update_service and responds; ret.metadata is the metadata   *)
(* check_service_health returned                                           *)
check_monitored_update(k, outcome) ==
    /\ k \in DOMAIN probes
    /\ LET service == probes[k].service
           r == check_service_health(service, outcome, probes[k].since)
       IN  /\ service.name \in Keys(services)
                 => Lookup(services, service.name).check_in_count < MaxCount
           /\ services' = UpdateServiceStore(services, service.name, r.status,
                                             r.message, r.metadata, now)
           /\ ret' = Ret("check_monitored_service", service.name, r.status,
                         UpdateServiceReturns(services, service.name, r.status),
                         TRUE, <<>>, <<>>, <<>>)
                        @@ [metadata |-> r.metadata]
    /\ probes' = Without(probes, k)
    /\ UNCHANGED <<now, gate_vars, manager>>

\* the outcomes the probes of the polled target are followed for
PolledOutcomes ==
    {Response(DEFAULT_EXPECTED_STATUS_CODE, <<>>), Response(500, <<>>),
     Raises("ConnectError")}

PollerInit == InitWith({DefaultConfig}, FALSE, Loaded(Monitored))

(* The polled target of the configuration file: its polling task, the     *)
(* manual check-now, and the check-ins for the same name.                  *)
PollerNext ==
  /\
    \/ Tick
    \/ startup_event
    \/ \E task \in Tasks(manager) :
          \/ monitor_service_loop(task)
          \/ \E outcome \in PolledOutcomes : monitor_service_update(task, outcome, FALSE)
    \/ \E n \in Monitored : check_monitored_service(n)
    \/ \E k \in ProbeSlots, outcome \in PolledOutcomes :
          check_monitored_update(k, outcome)
    \/ \E n \in Monitored, s \in ServiceStatus :
          manager.started /\ service_checkin(n, s, NoMessage, NoMetadata, FALSE)
    \/ \E k \in SendSlots, ok \in BOOLEAN : send_email(k, ok)
  /\ Len(sends') <= Cardinality(SendSlots)

PollerSpec == PollerInit /\ [][PollerNext]_vars

\* start_monitoring, called on the manager
start_monitoring ==
    /\ manager.started
    /\ manager' = StartMonitoring(manager)
    /\ ret' = NoRet("start_monitoring")
    /\ UNCHANGED <<now, services, gate_vars, probes>>

\* stop_monitoring, called on the manager
stop_monitoring(service_name) ==
    /\ manager.started
    /\ manager' = StopMonitoring(manager, service_name)
    /\ ret' = Ret("stop_monitoring", service_name, None, None, FALSE,
                  <<>>, <<>>, <<>>)
    /\ UNCHANGED <<now, services, gate_vars, probes>>

\* the targets the configuration requests are followed for
Targets == {"a"}

TaskInit == InitWith({DefaultConfig}, FALSE, Loaded(Targets))

(* The manager: the configuration requests, its methods and the polling    *)
(* tasks, cancelled or not.  At most MaxCancelled cancelled tasks await    *)
(* their CancelledError at a time.                                         *)
TaskNext ==
  /\
    \/ Tick
    \/ startup_event
    \/ \E n \in Targets : \E service \in TargetConfigs(n) :
          \/ add_monitored_service(service)
          \/ update_monitored_service(n, service)
    \/ \E n \in Targets : delete_monitored_service(n)
    \/ start_monitoring
    \/ \E n \in Targets \cup {None} : stop_monitoring(n)
    \/ \E task \in Tasks(manager) :
          \/ monitor_service_loop(task)
          \/ monitor_service_cancelled(task)
          \/ \E outcome \in PolledOutcomes \cup {Cancelled} :
                monitor_service_update(task, outcome, FALSE)
  /\ Cardinality(manager'.orphans) <= MaxCancelled

TaskSpec == TaskInit /\ [][TaskNext]_vars

(* check_service_health alone: one target of the configuration file, of   *)
(* any configuration, whose endpoint gives one answer, manager.upstream,   *)
(* to the polling task and to the manual check-now.                        *)
ClassifyConfigs ==
    {[MonitoredService("a", code, TRUE, check, content)
         EXCEPT !.timeout_seconds = timeout] :
        code \in {DEFAULT_EXPECTED_STATUS_CODE, 204},
        check \in BOOLEAN,
        content \in {NoContent, Content(<<>>), Content(<<"o", "k">>)},
        timeout \in {DEFAULT_PROBE_TIMEOUT_SECONDS, 5}}

ClassifyOutcomes ==
    {Response(code, body) :
        code \in {DEFAULT_EXPECTED_STATUS_CODE, 503},
        body \in {<<>>, <<"o", "k">>, <<"n", "o", "k">>, <<"k", "o">>}}
    \cup {Raises("TimeoutException"), Raises("ConnectError"), Raises("Exception")}

ClassifyInit ==
    InitWith({DefaultConfig}, FALSE,
             {[started |-> FALSE, services |-> [n \in {service.name} |-> service],
               check_tasks |-> <<>>, orphans |-> {}, client |-> FALSE,
               upstream |-> outcome] :
                 service \in ClassifyConfigs, outcome \in ClassifyOutcomes})

ClassifyNext ==
    \/ Tick
    \/ startup_event
    \/ \E task \in Tasks(manager) :
          \/ monitor_service_loop(task)
          \/ monitor_service_update(task, manager.upstream, FALSE)
    \/ \E n \in DOMAIN manager.services : check_monitored_service(n)
    \/ \E k \in ProbeSlots : check_monitored_update(k, manager.upstream)

ClassifySpec == ClassifyInit /\ [][ClassifyNext]_vars

(* The names that reach update_service: the check-ins of any name, and the *)
(* target that POST /monitored-services adds under a blank name, polled    *)
(* and checked by hand.  Notifications are disabled.                       *)
CheckinNames == {"a", "", " "}
BlankTargets == {" "}

NameInit ==
    InitWith({[enabled |-> FALSE, send_recovery_notifications |-> TRUE,
               recipients |-> 1]}, FALSE, Loaded({}))

NameNext ==
  /\
    \/ Tick
    \/ startup_event
    \/ \E n \in CheckinNames : service_checkin(n, UP, NoMessage, NoMetadata, FALSE)
    \/ \E n \in BlankTargets :
          add_monitored_service(
             MonitoredService(n, DEFAULT_EXPECTED_STATUS_CODE, TRUE, FALSE, NoContent))
    \/ \E task \in Tasks(manager) :
          \/ monitor_service_loop(task)
          \/ \E outcome \in {Response(DEFAULT_EXPECTED_STATUS_CODE, <<>>)} :
                monitor_service_update(task, outcome, FALSE)
    \/ \E n \in BlankTargets : check_monitored_service(n)
    \/ \E k \in ProbeSlots :
          check_monitored_update(k, Raises("ConnectError"))
  /\ Len(sends') <= Cardinality(SendSlots)

NameSpec == NameInit /\ [][NameNext]_vars

(* Two producers for one name: the polling task of target "a" and the     *)
(* check-ins of "a", which carry a message and a metadata key of their     *)
(* own.  update_service has no await: each call is one step of the event   *)
(* loop, in either order.  Notifications are disabled.                     *)
CheckinMetadata == Dict([version |-> "1"])

ConcurrentInit ==
    InitWith({[enabled |-> FALSE, send_recovery_notifications |-> TRUE,
               recipients |-> 1]}, FALSE,
             {[NoTargets EXCEPT
                 !.started = FALSE,
                 !.services = [n \in {"a"} |->
                     MonitoredService("a", DEFAULT_EXPECTED_STATUS_CODE, TRUE,
                                      FALSE, NoContent)]]})

ConcurrentNext ==
  /\
    \/ Tick
    \/ startup_event
    \/ \E task \in Tasks(manager) :
          \/ monitor_service_loop(task)
          \/ \E outcome \in PolledOutcomes : monitor_service_update(task, outcome, FALSE)
    \/ \E s \in {UP, UNKNOWN} :
          service_checkin("a", s, TextMessage("m"), CheckinMetadata, FALSE)
    \/ remove_service("a")
  /\ Len(sends') <= Cardinality(SendSlots)

ConcurrentSpec == ConcurrentInit /\ [][ConcurrentNext]_vars

(* The sweeper with failures: two services check in and go stale in one   *)
(* batch; check_stale_services or the notification of any of them may      *)
(* raise.                                                                  *)
SweepInit == InitWith({DefaultConfig}, FALSE, {NoTargets})

SweepNext ==
  /\
    \/ Tick
    \/ \E n \in ServiceNames : service_checkin(n, UP, NoMessage, NoMetadata, FALSE)
    \/ \E sweep_raises \in BOOLEAN, raising \in SUBSET ServiceNames :
          check_stale_services_loop(sweep_raises, raising)
    \/ \E k \in SendSlots, ok \in BOOLEAN : send_email(k, ok)
  /\ Len(sends') <= Cardinality(SendSlots)

SweepSpec == SweepInit /\ [][SweepNext]_vars

(* The polling task with failures: every outcome of client.get, and       *)
(* update_service raising, for the target of the configuration file;       *)
(* stop_monitoring and start_monitoring cancel and restart the task.       *)
FailureInit ==
    InitWith({DefaultConfig}, FALSE,
             {[NoTargets EXCEPT
                 !.started = FALSE,
                 !.services = [n \in {"a"} |->
                     MonitoredService("a", DEFAULT_EXPECTED_STATUS_CODE, TRUE,
                                      FALSE, NoContent)]]})

FailureNext ==
  /\
    \/ Tick
    \/ startup_event
    \/ start_monitoring
    \/ stop_monitoring("a")
    \/ \E task \in Tasks(manager) :
          \/ monitor_service_loop(task)
          \/ monitor_service_cancelled(task)
          \/ \E outcome \in ProbeOutcomes \cup {Cancelled}, store_raises \in BOOLEAN :
                monitor_service_update(task, outcome, store_raises)
  /\ Cardinality(manager'.orphans) <= MaxCancelled

FailureSpec == FailureInit /\ [][FailureNext]_vars

---------------------------------------------------------------------------
(* The claims *)

\* the transitions handed to the gate by the step into the next state
Handed == {ret'.gate[i] : i \in DOMAIN ret'.gate}

\* a transition to DOWN or DEGRADED that changes the status
AlertTransition(c) == IsAlert(c.status) /\ c.previous_status # c.status

C2_StaleDemotesExactlyTheOverdue ==
    [][ret'.op = "check_stale_services" =>
        /\ Len(services') = Len(services)
        /\ \A i \in DOMAIN services :
              LET old == services[i]
                  new == services'[i]
                  overdue == Seconds(now - old.last_check_in) > ret'.timeout_seconds
              IN  IF old.status \in {UP, DEGRADED} /\ overdue
                  THEN new.status = DOWN
                  ELSE new.status = old.status /\ new.message = old.message]_vars

\* one record demoted, another one last updated exactly timeout ago and kept
C2_Witness ==
    /\ ret.op = "check_stale_services"
    /\ ret.timeout_seconds > 0
    /\ Len(ret.stale_services) = 1
    /\ \E i \in DOMAIN services :
          /\ services[i].status \in {UP, DEGRADED}
          /\ Seconds(now - services[i].last_check_in) = ret.timeout_seconds

(* C3, as claimed: after a notification attempt for a service wrote the    *)
(* history at T0, every alert transition for it handed to the gate before  *)
(* T0 + cooldown is suppressed.                                            *)
C3_AsClaimed ==
    [][\A c \in Handed :
        (/\ AlertTransition(c)
         /\ c.service_name \in DOMAIN observer.attempted
         /\ Seconds(now - observer.attempted[c.service_name]) < cooldown_minutes * 60)
        => ~c.decided]_vars

(* C3, amended: an alert transition handed to the gate while the service   *)
(* has a history entry written less than cooldown ago is suppressed: the   *)
(* gate decides against it, starts no call of _send_email and leaves the   *)
(* history alone.  (An entry that was cleared suppresses nothing.)         *)
C3_AlertWithinCooldownSuppressed ==
    [][\A c \in Handed :
        (/\ AlertTransition(c)
         /\ c.service_name \in DOMAIN history
         /\ Seconds(now - history[c.service_name].last_notification)
               < cooldown_minutes * 60)
        => /\ ~c.decided
           /\ ret'.op = "service_checkin" => (sends' = sends /\ history' = history)]_vars

C3_Witness ==
    /\ ret.op = "service_checkin"
    /\ Len(ret.gate) = 1
    /\ AlertTransition(ret.gate[1])
    /\ ~ret.gate[1].decided
    /\ ret.service_name \in DOMAIN history
    /\ now > history[ret.service_name].last_notification

(* C4, as claimed: after an alert notification for a service at T0, every  *)
(* alert transition for it handed to the gate at T0 + cooldown or later is *)
(* sent, whatever the gate processed for the service in between.           *)
C4_AsClaimed ==
    [][\A c \in Handed :
        (/\ AlertTransition(c)
         /\ cfg.enabled
         /\ c.service_name \in DOMAIN observer.alerted
         /\ Seconds(now - observer.alerted[c.service_name]) >= cooldown_minutes * 60)
        => c.decided]_vars

(* C4, amended: an alert transition handed to the gate with notifications  *)
(* enabled is sent when the service has no history entry or its entry,     *)
(* written by the last notification of either kind, is cooldown old or     *)
(* older.                                                                  *)
C4_AlertAfterCooldownSent ==
    [][\A c \in Handed :
        (/\ AlertTransition(c)
         /\ cfg.enabled
         /\ c.service_name \in DOMAIN history
               => Seconds(now - history[c.service_name].last_notification)
                     >= cooldown_minutes * 60)
        => c.decided]_vars

\* a second alert sent exactly cooldown after the alert before it
C4_Witness ==
    /\ Len(ret.gate) = 1
    /\ AlertTransition(ret.gate[1])
    /\ ret.gate[1].decided
    /\ ret.service_name \in DOMAIN history
    /\ IsAlert(history[ret.service_name].last_status)
    /\ Seconds(now - history[ret.service_name].last_notification)
          = cooldown_minutes * 60
    /\ Len(sends) = 1

(* C5: with notifications and recovery notifications enabled, a transition *)
(* from DOWN or DEGRADED to UP is always sent, however recently the        *)
(* service was notified about.                                             *)
C5_RecoveryBypassesCooldown ==
    [][\A c \in Handed :
        (/\ cfg.enabled
         /\ cfg.send_recovery_notifications
         /\ c.previous_status \in {DOWN, DEGRADED}
         /\ c.status = UP)
        => c.decided]_vars

\* a recovery sent while the alert before it is less than cooldown old
C5_Witness ==
    /\ Len(ret.gate) = 1
    /\ ret.gate[1].previous_status \in {DOWN, DEGRADED}
    /\ ret.gate[1].status = UP
    /\ ret.gate[1].decided
    /\ Len(sends) = 1
    /\ ret.service_name \in DOMAIN history
    /\ IsAlert(history[ret.service_name].last_status)
    /\ Seconds(now - history[ret.service_name].last_notification)
          < cooldown_minutes * 60

(* C6: the gate sends only for a transition that changes the status and    *)
(* is an alert (to DOWN or DEGRADED) or a recovery (DOWN or DEGRADED to    *)
(* UP) with recovery notifications enabled; every other transition is      *)
(* suppressed.                                                             *)
C6_OnlyAlertsAndRecoveriesSent ==
    [][\A c \in Handed :
        c.decided =>
          /\ c.previous_status # c.status
          /\ \/ IsAlert(c.status)
             \/ /\ c.previous_status \in {DOWN, DEGRADED}
                /\ c.status = UP
                /\ cfg.send_recovery_notifications]_vars

\* a recovery suppressed because recovery notifications are disabled
C6_Witness ==
    /\ cfg.enabled
    /\ ~cfg.send_recovery_notifications
    /\ Len(ret.gate) = 1
    /\ ret.gate[1].previous_status = DOWN
    /\ ret.gate[1].status = UP
    /\ ~ret.gate[1].decided

(* C7: while notifications are disabled every transition handed to the     *)
(* gate is suppressed: no call of _send_email is started, the gate         *)
(* returns false and the history is unchanged.                             *)
C7_DisabledSuppressesAll ==
    [][(~cfg.enabled /\ Handed # {}) =>
        /\ \A c \in Handed : ~c.decided
        /\ ret'.done = <<>>
        /\ sends' = sends
        /\ history' = history]_vars

C7_Witness ==
    /\ ~cfg.enabled
    /\ Len(ret.gate) = 1
    /\ ret.gate[1].previous_status = UP
    /\ ret.gate[1].status = DOWN

(* C8: when a call the gate decided to send finishes, the history entry    *)
(* of the service is written: last_notification is the current time and    *)
(* notification_count is one more than before, or 1 for a new entry,       *)
(* whether or not a recipient was reached; with no recipient the entry is  *)
(* written in the step that decided, and otherwise the call stays in       *)
(* flight until its last delivery returns.                                 *)
C8_HistoryWrittenOnEveryAttempt ==
    [][/\ \A i \in DOMAIN ret'.done :
            LET n == ret'.done[i].service_name
            IN  /\ n \in DOMAIN history'
                /\ history'[n].last_notification = now'
                /\ history'[n].notification_count =
                      IF n \in DOMAIN history
                      THEN history[n].notification_count + 1
                      ELSE 1
       /\ \A c \in Handed :
            (c.decided /\ cfg.recipients = 0) =>
               \E i \in DOMAIN ret'.done : ret'.done[i].service_name = c.service_name
       /\ \A c \in Handed :
            (c.decided /\ cfg.recipients > 0) =>
               \E k \in DOMAIN sends' : sends'[k].ref.service_name = c.service_name]_vars

\* an alert that reached no recipient and started the cooldown window
C8_Witness ==
    /\ ret.op = "send_email"
    /\ Len(ret.done) = 1
    /\ ~ret.done[1].result
    /\ IsAlert(ret.done[1].status)
    /\ history[ret.service_name].last_notification = now
    /\ history[ret.service_name].notification_count = 2
    /\ now > 0

(* C9: every call of update_service that changes a record's status, made   *)
(* by a check-in, by an iteration of a polling loop or by a manual         *)
(* check-now, hands the transition (service, previous status, new status)  *)
(* to the gate.                                                            *)
C9_EveryStatusChangeHandedToGate ==
    [][(/\ ret'.op \in {"service_checkin", "_monitor_service_loop",
                        "check_monitored_service"}
        /\ ret'.previous_status # None)
       => \E c \in Handed : /\ c.service_name = ret'.service_name
                            /\ c.previous_status = ret'.previous_status
                            /\ c.status = ret'.status]_vars

(* C10: after any sequence of POST, PUT and DELETE on the monitored        *)
(* targets, the running polling tasks are those of the configured targets  *)
(* with enabled = true, and each task probes with the latest stored        *)
(* configuration of its target.                                            *)
C10_TasksReflectLatestConfig ==
    manager.started =>
      /\ DOMAIN manager.check_tasks =
            {n \in DOMAIN manager.services : manager.services[n].enabled}
      /\ \A n \in DOMAIN manager.check_tasks :
            manager.check_tasks[n].service = manager.services[n]

\* the live tasks of m that write to the record of name
LiveFor(m, name) == {task \in LiveTasks(m) : task.service.name = name}

(* C11: in every reachable state at most one polling task per target name  *)
(* is live (not cancelled), whatever the interleaving of start, stop, add, *)
(* update and remove, and every task that is started is started for a      *)
(* stored target whose enabled flag is true.                               *)
C11_OneLiveTaskPerName ==
    [][/\ \A n \in Targets : Cardinality(LiveFor(manager', n)) <= 1
       /\ \A task \in LiveTasks(manager') \ LiveTasks(manager) :
            task.pc = "ready" =>
               /\ task.service.enabled
               /\ task.service.name \in DOMAIN manager'.services
               /\ manager'.services[task.service.name] = task.service]_vars

\* start called again while a live task and a cancelled one exist for a name
C11_Witness ==
    /\ ret.op = "start_monitoring"
    /\ \E n \in Targets :
          /\ Cardinality(LiveFor(manager, n)) = 1
          /\ \E task \in manager.orphans :
                task.service.name = n /\ task.cancelled /\ task.pc = "get"
          /\ manager.check_tasks[n].pc = "get"

(* C12: a polling task that stop_monitoring or remove_service cancelled    *)
(* calls update_service no more, also when its probe was in flight: the    *)
(* CancelledError ends it without a write and it never runs on; and a name *)
(* gets a task again only by a later start (startup, POST, PUT or          *)
(* start_monitoring).                                                      *)
C12_CancelledTaskNeverWrites ==
    [][/\ ret'.op = "_monitor_service_loop" => ~ret'.flag
       /\ ret'.op = "CancelledError" => services' = services
       /\ \A task \in manager.orphans :
            task.cancelled =>
               \/ task \in manager'.orphans
               \/ /\ ret'.op = "CancelledError"
                  /\ manager'.orphans = manager.orphans \ {task}
                  /\ manager'.check_tasks = manager.check_tasks
       /\ \A n \in Targets :
            (n \notin DOMAIN manager.check_tasks /\ n \in DOMAIN manager'.check_tasks)
            => ret'.op \in {"startup_event", "add_monitored_service",
                            "update_monitored_service", "start_monitoring"}]_vars

(* a task cancelled while its probe was in flight ends, after a new task   *)
(* for the name was started and wrote                                      *)
C12_Witness ==
    /\ ret.op = "CancelledError"
    /\ ret.status = "get"
    /\ manager.orphans = {}
    /\ ret.service_name \in DOMAIN manager.check_tasks
    /\ manager.check_tasks[ret.service_name].pc = "sleep"
    /\ ret.service_name \in Keys(services)

(* C13: check_service_health classifies the outcome of a probe by          *)
(* priority: an exception of the request (connection failure, timeout,     *)
(* other) gives DOWN, a timeout with the configured timeout_seconds in the *)
(* message; a status code other than expected_status_code gives DEGRADED   *)
(* with both codes in the message, whatever the body; else a body check    *)
(* that is enabled with a non-empty expected text missing from the body    *)
(* gives DEGRADED; else UP.  The polling loop and the manual check write   *)
(* the same status and message for the same outcome.                       *)
C13_ClassifiedByPriority ==
    [][ret'.op \in {"_monitor_service_loop", "check_monitored_service"} =>
         LET outcome == manager.upstream
             service == manager.services[ret'.service_name]
             record == Lookup(services', ret'.service_name)
             expected == service.expected_body_content
             found == \E i \in 0..Len(outcome.body) :
                         /\ i + Len(expected.text) <= Len(outcome.body)
                         /\ SubSeq(outcome.body, i + 1, i + Len(expected.text))
                               = expected.text
         IN  /\ record.status = ret'.status
             /\ IF outcome.kind # "response"
                THEN /\ record.status = DOWN
                     /\ outcome.kind = "TimeoutException"
                           => record.message.args = <<service.timeout_seconds>>
                ELSE IF outcome.status_code # service.expected_status_code
                THEN /\ record.status = DEGRADED
                     /\ record.message.args =
                           <<outcome.status_code, service.expected_status_code>>
                ELSE IF /\ service.check_response_body
                        /\ ~expected.isNone
                        /\ expected.text # <<>>
                        /\ ~found
                THEN record.status = DEGRADED
                ELSE record.status = UP]_vars

(* the manual check and the polling task have both written DEGRADED for a  *)
(* 503 whose body also lacks the expected text                             *)
C13_Witness ==
    /\ ret.op = "check_monitored_service"
    /\ manager.upstream = Response(503, <<"k", "o">>)
    /\ manager.services["a"].check_response_body
    /\ manager.services["a"].expected_body_content = Content(<<"o", "k">>)
    /\ "a" \in Keys(services)
    /\ Lookup(services, "a").status = DEGRADED
    /\ Lookup(services, "a").message.args = <<503, 200>>
    /\ Lookup(services, "a").check_in_count = 2
    /\ manager.check_tasks["a"].pc = "sleep"

(* C14: every update_service call for a name counts: the call that creates *)
(* the record sets check_in_count to 1, every later one adds 1 whether or  *)
(* not the status changes, and no other operation changes the count, so    *)
(* after N calls with no remove between them the count is N; it is at      *)
(* least 1 for every record.                                               *)
C14_CountIsNumberOfUpdates ==
    [][\A n \in Keys(services') :
         /\ Lookup(services', n).check_in_count >= 1
         /\ IF ret'.op = "update_service" /\ ret'.service_name = n
            THEN Lookup(services', n).check_in_count =
                    IF n \in Keys(services)
                    THEN Lookup(services, n).check_in_count + 1
                    ELSE 1
            ELSE /\ n \in Keys(services)
                 /\ Lookup(services', n).check_in_count =
                       Lookup(services, n).check_in_count]_vars

\* a second update of a record that leaves its status as it was
C14_Witness ==
    /\ ret.op = "update_service"
    /\ ret.previous_status = None
    /\ ret.service_name \in Keys(services)
    /\ Lookup(services, ret.service_name).check_in_count = 2
    /\ Len(services) = 2

(* C15: last_check_in of a record never decreases while the record exists: *)
(* update_service sets it to the current time, which is not before the     *)
(* value it had, and remove_service (of another name) and                  *)
(* check_stale_services leave it as it is.                                 *)
C15_LastCheckInMonotonic ==
    [][\A n \in Keys(services') :
         IF ret'.op = "update_service" /\ ret'.service_name = n
         THEN /\ Lookup(services', n).last_check_in = now'
              /\ n \in Keys(services) =>
                    Lookup(services, n).last_check_in
                       <= Lookup(services', n).last_check_in
         ELSE /\ n \in Keys(services)
              /\ Lookup(services', n).last_check_in
                    = Lookup(services, n).last_check_in]_vars

(* a sweep has demoted a record that was updated twice, the last time      *)
(* after its creation, and has left its last_check_in in the past          *)
C15_Witness ==
    /\ ret.op = "check_stale_services"
    /\ Len(ret.stale_services) = 1
    /\ LET record == Lookup(services, ret.stale_services[1].service_name)
       IN  /\ record.status = DOWN
           /\ record.check_in_count = 2
           /\ record.last_check_in = 1
           /\ now = 2

(* C16: update_service merges a non-empty metadata argument into the       *)
(* record's metadata: the keys of the argument take the argument's values, *)
(* the other keys of the record keep theirs and no other key appears (a    *)
(* new record starts from no keys); with metadata None or {} the stored    *)
(* metadata stays as it is.                                                *)
C16_MetadataMerged ==
    [][ret'.op = "update_service" =>
         LET n == ret'.service_name
             given == ret'.metadata
             old == IF n \in Keys(services)
                    THEN Lookup(services, n).metadata ELSE <<>>
             new == Lookup(services', n).metadata
         IN  IF given.isNone \/ DOMAIN given.d = {}
             THEN new = old
             ELSE /\ DOMAIN new = DOMAIN old \cup DOMAIN given.d
                  /\ \A k \in DOMAIN new :
                        new[k] = IF k \in DOMAIN given.d
                                 THEN given.d[k] ELSE old[k]]_vars

\* {a: 1, b: 2} updated with {b: 3, c: 4}
C16_Witness ==
    /\ ret.op = "update_service"
    /\ ret.metadata = Dict([b |-> "3", c |-> "4"])
    /\ Lookup(services, ret.service_name).metadata
          = [a |-> "1", b |-> "3", c |-> "4"]

(* C17: no record of the store has a name that is empty after trimming,    *)
(* whichever path called update_service (the check-in handler, the polling *)
(* loop of a configured target, the manual check): an update with an empty *)
(* or whitespace-only name fails and creates no record.                    *)
C17_NoBlankNameRecord ==
    \A n \in Keys(services) : Strip(n) # ""

C19_RemoveReturnsExisted ==
    [][ret'.op = "remove_service" =>
         LET n == ret'.service_name
             existed == n \in Keys(services)
         IN  /\ ret'.flag <=> existed
             /\ n \notin Keys(services')
             /\ IF existed
                THEN Len(services') = Len(services) - 1
                ELSE services' = services
             /\ \A m \in Keys(services) \ {n} :
                   /\ m \in Keys(services')
                   /\ Lookup(services', m) = Lookup(services, m)]_vars

\* one of two records removed
C19_Witness ==
    /\ ret.op = "remove_service"
    /\ ret.flag
    /\ Len(services) = 1
    /\ ret.service_name \notin Keys(services)
    /\ services[1].check_in_count = 2

(* C20: the store and the notification history are independent:            *)
(* remove_service leaves every history entry, that of the removed name     *)
(* included, as it is, and clear_notification_history, for one name or for *)
(* all, leaves every record as it is.                                      *)
C20_StoreAndHistoryIndependent ==
    [][/\ ret'.op = "remove_service" => history' = history
       /\ ret'.op = "clear_notification_history" => services' = services]_vars

\* a record removed while the history holds an entry for its name
C20_Witness ==
    /\ ret.op = "remove_service"
    /\ ret.flag
    /\ ret.service_name \notin Keys(services)
    /\ ret.service_name \in DOMAIN history
    /\ history[ret.service_name].notification_count = 2

\* the calls of update_service by the two producers of a name
Producers == {"service_checkin", "_monitor_service_loop"}

(* C21: two update_service calls for one name, one by the polling task and *)
(* one by the check-in handler, made one after the other in either order   *)
(* never mix: after both the record holds the metadata keys of both calls, *)
(* the count rose once per call, and status, message and last_check_in are *)
(* all those of the last call.                                             *)
C21_ConcurrentUpdatesDoNotMix ==
    [][(/\ ret.op \in Producers /\ ret'.op \in Producers /\ ret.op # ret'.op
        /\ ~ret.flag /\ ~ret'.flag
        /\ ret.service_name = ret'.service_name)
       => LET n == ret'.service_name
              first == Lookup(services, n)
              both == Lookup(services', n)
              polled == IF ret'.op = "_monitor_service_loop" THEN both ELSE first
          IN  /\ DOMAIN first.metadata \subseteq DOMAIN both.metadata
              /\ DOMAIN CheckinMetadata.d \subseteq DOMAIN both.metadata
              /\ both.metadata.version = CheckinMetadata.d.version
              /\ \A k \in DOMAIN polled.metadata \ DOMAIN CheckinMetadata.d :
                    both.metadata[k] = polled.metadata[k]
              /\ DOMAIN both.metadata # DOMAIN CheckinMetadata.d
              /\ both.check_in_count = first.check_in_count + 1
              /\ both.check_in_count >= 2
              /\ both.status = ret'.status
              /\ both.last_check_in = now'
              /\ (both.message = TextMessage("m"))
                    <=> (ret'.op = "service_checkin")]_vars

(* the check-in arrived while the probe was in flight and wrote first, the *)
(* polling task wrote DOWN after it, at a later time                       *)
C21_Witness ==
    /\ ret.op = "_monitor_service_loop"
    /\ "a" \in Keys(services)
    /\ Lookup(services, "a").check_in_count = 2
    /\ Lookup(services, "a").status = DOWN
    /\ Lookup(services, "a").metadata = [version |-> "1", error |-> "connection_error"]
    /\ Lookup(services, "a").last_check_in = 1

\* the service names of a sequence of transitions, in order
NamesOf(transitions) ==
    [i \in DOMAIN transitions |->
        IF "ref" \in DOMAIN transitions[i]
        THEN transitions[i].ref.service_name
        ELSE transitions[i].service_name]

(* C22: in check_stale_services_loop an exception of the notification of   *)
(* one transition of a batch keeps none of the other transitions from the  *)
(* gate: every transition of the batch is handed over, in the step of the  *)
(* sweep or, behind a call that awaits its emails, when that call returns; *)
(* and after that exception, or one of check_stale_services, the loop is   *)
(* still running.                                                          *)
C22_SweeperSurvivesExceptions ==
    [][/\ (ret'.op = "check_stale_services_loop" /\ ~ret'.flag)
            => NamesOf(ret'.gate) \o NamesOf(sweeper'.batch)
                  = NamesOf(ret'.stale_services)
       /\ (ret'.op = "check_stale_services_loop" /\ ret'.flag)
            => /\ sweeper'.pc = "sleep" /\ sweeper'.started = now
               /\ services' = services
       /\ (ret'.op = "send_email" /\ sweeper.pc = "notify")
            => \/ sweeper' = sweeper
               \/ NamesOf(ret'.gate) \o NamesOf(sweeper'.batch)
                     = NamesOf(sweeper.batch)
       /\ sweeper'.pc \in {"sleep", "notify"}
       /\ sweeper'.pc = "sleep" => sweeper'.batch = <<>>]_vars

(* the notification of the first of two stale services raised and the      *)
(* second was handed to the gate and decided                               *)
C22_Witness ==
    /\ ret.op = "check_stale_services_loop"
    /\ Len(ret.stale_services) = 2
    /\ Len(ret.gate) = 2
    /\ "raised" \in DOMAIN ret.gate[1]
    /\ "raised" \notin DOMAIN ret.gate[2]
    /\ ret.gate[2].decided
    /\ sweeper.pc = "notify"

(* C23: no failure of an iteration ends a polling loop.  When client.get   *)
(* raises (connection error, timeout, any other exception) the iteration   *)
(* writes DOWN for the target; when another call of the iteration raises   *)
(* the loop logs it; both times the task goes to its sleep for the next    *)
(* iteration.  A task that is not cancelled never ends.                    *)
C23_LoopSurvivesFailures ==
    [][/\ (ret'.op \in {"_monitor_service_loop", "Exception"} /\ ~ret'.flag)
            => /\ \E task \in LiveTasks(manager') :
                     /\ task.service.name = ret'.service_name
                     /\ task.pc = "sleep"
                     /\ task.since = now
               /\ Cardinality(LiveTasks(manager'))
                     = Cardinality(LiveTasks(manager))
       /\ (/\ ret'.op \in {"_monitor_service_loop", "Exception"}
           /\ ret'.outcome # "response" /\ ~ret'.store_raises)
            => /\ ret'.op = "_monitor_service_loop"
               /\ ret'.status = DOWN
               /\ Lookup(services', ret'.service_name).status = DOWN
               /\ Lookup(services', ret'.service_name).last_check_in = now
       /\ Cardinality(LiveTasks(manager')) < Cardinality(LiveTasks(manager))
            => ret'.op = "stop_monitoring"
       /\ \A task \in Tasks(manager) :
             (task \notin Tasks(manager')
              /\ \A other \in Tasks(manager') :
                    other.service.name # task.service.name)
             => ret'.op = "CancelledError" \/ task.cancelled]_vars

(* update_service raised in an iteration whose probe had timed out, and    *)
(* the task sleeps; the record holds the DOWN of an earlier timeout        *)
C23_Witness ==
    /\ ret.op = "Exception"
    /\ ret.outcome = "TimeoutException"
    /\ \E task \in LiveTasks(manager) : task.pc = "sleep" /\ task.since = now
    /\ "a" \in Keys(services)
    /\ Lookup(services, "a").status = DOWN
    /\ Lookup(services, "a").message.args = <<DEFAULT_PROBE_TIMEOUT_SECONDS>>


----------------------------------------------------------------------------
(* Check-ins whose notification fails: the gate raises, or no recipient    *)
(* takes the email.                                                        *)
CheckinInit == InitWith(Configs, FALSE, {NoTargets})

CheckinNext ==
  /\
    \/ Tick
    \/ \E n \in Monitored, s \in ServiceStatus, gate_raises \in BOOLEAN :
          service_checkin(n, s, NoMessage, NoMetadata, gate_raises)
    \/ \E k \in SendSlots, ok \in BOOLEAN : send_email(k, ok)
  /\ Len(sends') <= Cardinality(SendSlots)

CheckinSpec == CheckinInit /\ [][CheckinNext]_vars

\* the gate raised in the step that led to this state
GateRaised == \E i \in DOMAIN ret.gate : "raised" \in DOMAIN ret.gate[i]

(* C24: a failure of the notification path never fails the check-in.  An   *)
(* accepted check-in commits its update to the record whether or not the   *)
(* gate raises, and answers 201 or is still awaiting the emails; the end   *)
(* of the delivery, also when every recipient failed, leaves the record    *)
(* as it is and the waiting handler answers 201.                           *)
C24_NotificationFailureKeepsCheckin ==
    [][/\ (ret'.op = "service_checkin" /\ ~ret'.flag)
          => /\ ret'.service_name \in Keys(services')
             /\ Lookup(services', ret'.service_name).status = ret'.status
             /\ Lookup(services', ret'.service_name).last_check_in = now
             /\ Lookup(services', ret'.service_name).check_in_count
                  = IF ret'.service_name \in Keys(services)
                    THEN Lookup(services, ret'.service_name).check_in_count + 1
                    ELSE 1
             /\ ret'.response \in {"201", "pending"}
             /\ GateRaised' => ret'.response = "201"
       /\ ret'.op = "send_email"
          => /\ services' = services
             /\ ret'.response \in {"201", "pending", None}
             /\ (ret'.done # <<>> /\ sends[1].caller = "handler")
                  => ret'.response = "201"]_vars

C24_Witness ==
    /\ ret.op = "service_checkin"
    /\ GateRaised
    /\ ret.response = "201"
    /\ ret.previous_status = UP
    /\ Lookup(services, ret.service_name).status = DOWN


----------------------------------------------------------------------------
(* Shutdown.  app.shutdown is where shutdown_event is: "running" before    *)
(* it is called, "await_sweeper" in the await of stale_check_task,         *)
(* "gather" in the gather of close, "closed" when it has returned.  The    *)
(* event loop runs the callbacks in the order they were scheduled, so      *)
(* CancelledError reaches the tasks in the order of their cancel().        *)

\* close: task.cancel() for the tasks of check_tasks, which keeps them
CloseTasks(m) ==
    [m EXCEPT !.check_tasks = [n \in DOMAIN @ |->
                                 IF @[n].pc = "done" THEN @[n] ELSE Cancel(@[n])]]

GatheredAtOnce(m) == TRUE

\* close: asyncio.gather over check_tasks.values() has returned
Gathered(m) == \A n \in DOMAIN m.check_tasks : m.check_tasks[n].pc = "done"

\* shutdown_event up to the await of stale_check_task
shutdown_event ==
    /\ manager.started
    /\ app.shutdown = "running"
    /\ app' = [app EXCEPT !.shutdown = "await_sweeper"]
    /\ sweeper' = [sweeper EXCEPT !.pc = "cancelled"]
    /\ ret' = Ret("shutdown_event", None, sweeper.pc, None, FALSE,
                  <<>>, <<>>, <<>>)
    /\ UNCHANGED <<now, services, cfg, history, sends, observer, manager, probes>>

(* check_stale_services_loop: CancelledError is raised in asyncio.sleep or *)
(* in _send_email and re-raised; the call of send_service_notification in  *)
(* flight ends with it.  ret.status is where the task was.                 *)
sweeper_cancelled ==
    /\ sweeper.pc = "cancelled"
    /\ manager.orphans = {}
    /\ sweeper' = [sweeper EXCEPT !.pc = "done", !.batch = <<>>]
    /\ sends' = SelectSeq(sends, LAMBDA send : send.caller # "sweeper")
    /\ ret' = Ret("CancelledError", None,
                  IF sends' # sends THEN "notify" ELSE "sleep", None, TRUE,
                  <<>>, <<>>, <<>>)
    /\ UNCHANGED <<now, services, cfg, history, observer, manager, probes, app>>

\* shutdown_event: the await of stale_check_task returns; close up to gather
manager_close ==
    /\ app.shutdown = "await_sweeper"
    /\ sweeper.pc = "done"
    /\ app' = [app EXCEPT !.shutdown = "gather"]
    /\ manager' = CloseTasks(manager)
    /\ ret' = Ret("close", None, None, None, FALSE, <<>>, <<>>, <<>>)
    /\ UNCHANGED <<now, services, cfg, history, sends, sweeper, observer, probes>>

(* close: gather returns and the client of the manager is closed;          *)
(* shutdown_event: notification_service.close() closes its client          *)
close_clients ==
    /\ app.shutdown = "gather"
    /\ Gathered(manager)
    /\ app' = [shutdown |-> "closed", client |-> FALSE]
    /\ manager' = [manager EXCEPT !.client = FALSE]
    /\ ret' = Ret("aclose", None, None, None, FALSE, <<>>, <<>>, <<>>)
    /\ UNCHANGED <<now, services, cfg, history, sends, sweeper, observer, probes>>

\* CancelledError is raised in a cancelled polling task
task_cancelled ==
    \E task \in Tasks(manager) :
       \/ monitor_service_cancelled(task)
       \/ monitor_service_update(task, Cancelled, FALSE)

ShutdownInit ==
    InitWith({DefaultConfig}, FALSE,
             {[NoTargets EXCEPT
                 !.started = FALSE,
                 !.services = [n \in {"a"} |->
                     MonitoredService("a", DEFAULT_EXPECTED_STATUS_CODE, TRUE,
                                      FALSE, NoContent)]]})

ShutdownNext ==
  /\
    \/ Tick
    \/ startup_event
    \/ /\ app.shutdown = "running"
       /\ \/ service_checkin("a", UP, NoMessage, NoMetadata, FALSE)
          \/ stop_monitoring("a")
    \/ \E task \in Tasks(manager) :
          \/ monitor_service_loop(task)
          \/ monitor_service_update(task, Response(DEFAULT_EXPECTED_STATUS_CODE, <<>>),
                                    FALSE)
    \/ task_cancelled
    \/ manager.started /\ check_stale_services_loop(FALSE, {})
    \/ \E k \in SendSlots, ok \in BOOLEAN : send_email(k, ok)
    \/ shutdown_event
    \/ sweeper_cancelled
    \/ manager_close
    \/ close_clients
  /\ Cardinality(manager'.orphans) <= MaxCancelled
  /\ Len(sends') <= Cardinality(SendSlots)

(* The event loop runs every callback it has scheduled: a cancelled task   *)
(* gets its CancelledError and shutdown_event resumes when what it awaits  *)
(* is done.                                                                *)
ShutdownSpec ==
    /\ ShutdownInit
    /\ [][ShutdownNext]_vars
    /\ WF_vars(task_cancelled)
    /\ WF_vars(sweeper_cancelled)
    /\ WF_vars(manager_close)
    /\ WF_vars(close_clients)

\* a background task: the sweeper or a polling task
BackgroundOps == {"check_stale_services_loop", "_monitor_service_loop",
                  "check_service_health"}

(* C25: shutdown terminates.  Once shutdown_event is called it returns;    *)
(* when it has returned no polling task and no sweep task is left, the     *)
(* client of the manager and the client of the notification service are    *)
(* closed, and from then on no step of a background task happens: no       *)
(* store write, no call of the gate, no email of the sweeper.              *)
C25_ShutdownTerminates ==
    /\ (app.shutdown # "running") ~> (app.shutdown = "closed")
    /\ [](app.shutdown = "closed"
            => /\ Tasks(manager) = {}
               /\ sweeper.pc = "done"
               /\ \A k \in DOMAIN sends : sends[k].caller # "sweeper"
               /\ ~manager.client
               /\ ~app.client)
    /\ [][app.shutdown = "closed"
            => /\ ret'.op \notin BackgroundOps
               /\ services' = services
               /\ ret'.op = "send_email" => ret'.response # None]_vars

C25_Witness ==
    /\ app.shutdown = "closed"
    /\ ret.op = "aclose"
    /\ "a" \in DOMAIN manager.check_tasks
    /\ services # <<>>
    /\ history # <<>>

(* C26: delivery is attempted for every configured recipient, whatever     *)
(* the results for the recipients before it, and the gate returns true     *)
(* exactly if at least one of them succeeded.  Each answer of _send_email  *)
(* moves the call to the next recipient and counts a success; the call     *)
(* ends with the answer for the last recipient, and with no recipient it   *)
(* ends at once with false.                                                *)
C26_EveryRecipientAttempted ==
    [][/\ ret'.op = "send_email"
          => LET send == sends[1]
             IN  IF send.recipient + 1 < cfg.recipients
                 THEN /\ ret'.done = <<>>
                      /\ Len(sends') = 1
                      /\ sends'[1].recipient = send.recipient + 1
                      /\ sends'[1].success_count > 0
                           <=> (send.success_count > 0 \/ ret'.flag)
                 ELSE /\ send.recipient + 1 = cfg.recipients
                      /\ sends' = <<>>
                      /\ Len(ret'.done) = 1
                      /\ ret'.done[1].result
                           <=> (send.success_count > 0 \/ ret'.flag)
       /\ (ret'.op = "service_checkin" /\ ret'.done # <<>>)
          => (cfg.recipients = 0 /\ ~ret'.done[1].result)
       /\ (ret'.op = "service_checkin" /\ sends' # sends)
          => (cfg.recipients > 0 /\ sends = <<>> /\ Len(sends') = 1
              /\ sends'[1].recipient = 0 /\ sends'[1].success_count = 0)]_vars

C26_Witness ==
    /\ ret.op = "send_email"
    /\ cfg.recipients = 2
    /\ ret.done # <<>>
    /\ ret.done[1].result
    /\ ~ret.flag

(* C27: the metadata check_service_health returns contains, for every      *)
(* outcome of the probe, the URL probed and the time of the check; for an  *)
(* outcome that is an exception of the request it contains an error tag    *)
(* and neither the status code nor the response time.                      *)
C27_MetadataCarriesUrlAndTime ==
    [][ret'.op \in {"_monitor_service_loop", "check_monitored_service"} =>
         LET md == ret'.metadata.d
             service == manager.services[ret'.service_name]
         IN  /\ ~ret'.metadata.isNone
             /\ {"health_url", "checked_at"} \subseteq DOMAIN md
             /\ md.health_url = service.health_url
             /\ manager.upstream.kind # "response"
                  => /\ "error" \in DOMAIN md
                     /\ DOMAIN md \cap {"http_status_code", "response_time_ms"} = {}]_vars

(* C28: get_service_count is the number of distinct names that were        *)
(* updated since they were last removed: it starts at 0 and is the number  *)
(* of names the store holds; an update of a name the store holds leaves    *)
(* it, an update of a new name adds one, a remove_service that returns     *)
(* True takes one off, one that returns False leaves it, and               *)
(* check_stale_services never changes it.                                  *)
C28_CountIsNumberOfNames ==
    /\ [](GetServiceCount(services) = Cardinality(Keys(services)))
    /\ [][LET before == GetServiceCount(services)
              after == GetServiceCount(services')
          IN  /\ ret'.op = "update_service"
                   => after = IF ret'.service_name \in Keys(services)
                              THEN before ELSE before + 1
              /\ ret'.op = "remove_service"
                   => after = IF ret'.flag THEN before - 1 ELSE before
              /\ ret'.op \in {"check_stale_services", "tick"}
                   => after = before]_vars

\* a sweep demoted two records and the count stayed 2
C28_Witness ==
    /\ ret.op = "check_stale_services"
    /\ Len(ret.stale_services) = 2
    /\ GetServiceCount(services) = 2

----------------------------------------------------------------------------
(* The history with the entries of two services: a checks in, is removed   *)
(* and added again and its alerts are delivered; b was notified about as   *)
(* recovered at time 0 and removed, which left its entry.  The two DELETE  *)
(* endpoints of the history clear a's entry or all; the observer tracks.   *)
HistoryInit ==
    /\ now = 0
    /\ services = <<>>
    /\ cfg = DefaultConfig
    /\ history \in {<<>>, RecordNotification(<<>>, "b", UP, 0)}
    /\ sends = <<>>
    /\ sweeper = [pc |-> "sleep", started |-> 0, batch |-> <<>>]
    /\ observer = [tracking |-> TRUE, attempted |-> [n \in DOMAIN history |-> 0],
                   alerted |-> <<>>]
    /\ manager = NoTargets
    /\ probes = <<>>
    /\ app = [shutdown |-> "running", client |-> TRUE]
    /\ ret = NoRet("init")

HistoryNext ==
  /\
    \/ Tick
    \/ \E n \in Monitored, s \in {UP, DOWN} :
          service_checkin(n, s, NoMessage, NoMetadata, FALSE)
    \/ \E n \in Monitored : remove_service(n)
    \/ \E n \in Monitored \cup {None} : clear_notification_history(n)
    \/ \E k \in SendSlots, ok \in BOOLEAN : send_email(k, ok)
  /\ Len(sends') <= Cardinality(SendSlots)

HistorySpec == HistoryInit /\ [][HistoryNext]_vars

(* C29: clear_notification_history(name) removes the entry of name and     *)
(* leaves every other entry as it is; without a name it removes every      *)
(* entry; and an alert transition of a service whose entry was cleared is  *)
(* sent, however recently the service was notified about.                  *)
C29_ClearHistoryResetsCooldown ==
    [][/\ ret'.op = "clear_notification_history"
          => IF ret'.service_name # None
             THEN /\ DOMAIN history' = DOMAIN history \ {ret'.service_name}
                  /\ \A n \in DOMAIN history' : history'[n] = history[n]
             ELSE history' = <<>>
       /\ \A c \in Handed :
             (/\ AlertTransition(c)
              /\ c.service_name \in DOMAIN observer.attempted
              /\ c.service_name \notin DOMAIN history)
             => c.decided]_vars

(* the entry of a was cleared, that of b stayed, and an alert for a is     *)
(* being sent in the cooldown of the one before                            *)
C29_Witness ==
    /\ ret.op = "service_checkin"
    /\ ret.service_name = "a"
    /\ Len(ret.gate) = 1
    /\ AlertTransition(ret.gate[1])
    /\ ret.gate[1].decided
    /\ "a" \in DOMAIN observer.attempted
    /\ Seconds(now - observer.attempted["a"]) < cooldown_minutes * 60
    /\ "a" \notin DOMAIN history
    /\ "b" \in DOMAIN history

----------------------------------------------------------------------------
(* Two calls of the gate at one time: a check-in or the sweeper hands a    *)
(* transition over while the emails of an earlier call are awaited.  The   *)
(* history is never cleared and the observer tracks.                       *)
RaceInit == InitWith({DefaultConfig}, TRUE, {NoTargets})

RaceNext ==
    \/ Tick
    \/ \E n \in Monitored, s \in ServiceStatus :
          service_checkin(n, s, NoMessage, NoMetadata, FALSE)
    \/ check_stale_services_loop(FALSE, {})
    \/ \E k \in RaceSlots, ok \in BOOLEAN : send_email(k, ok)

RaceSpec == RaceInit /\ [][RaceNext]_vars

(* C30: any two alert notifications of the gate for a service are at       *)
(* least the cooldown apart, also when the second transition is handed     *)
(* over while the emails of the first are awaited: an alert notification   *)
(* that reached a recipient comes no sooner than the cooldown after the    *)
(* one before it for the service.                                          *)
C30_AlertsCooldownApart ==
    [][\A i \in DOMAIN ret'.done :
         LET d == ret'.done[i]
         IN  (/\ ~d.is_recovery
              /\ d.result
              /\ d.service_name \in DOMAIN observer.alerted)
             => Seconds(now - observer.alerted[d.service_name])
                  >= cooldown_minutes * 60]_vars

----------------------------------------------------------------------------
(* The sweeper's batch and the check-ins: two services check in UP or      *)
(* DEGRADED, the sweep demotes the stale ones and notifies one after the   *)
(* other, and a service of the batch may check in while the emails for an  *)
(* earlier one are awaited; the sweeper's call and a handler's can be in   *)
(* flight together.                                                        *)
BatchNext ==
  /\
    \/ Tick
    \/ \E n \in ServiceNames, s \in {UP, DEGRADED} :
          service_checkin(n, s, NoMessage, NoMetadata, FALSE)
    \/ check_stale_services_loop(FALSE, {})
    \/ \E k \in RaceSlots, ok \in BOOLEAN : send_email(k, ok)
  /\ Len(sends') <= Cardinality(RaceSlots)

BatchSpec == SweepInit /\ [][BatchNext]_vars

\* the step into the next state was one of the sweeper
SweeperStep ==
    \/ ret'.op = "check_stale_services_loop"
    \/ ret'.op = "send_email" /\ ret'.response = None

(* C31: every transition the sweeper hands to the gate is evaluated and    *)
(* notified with the status the sweep set, DOWN, and a previous status of  *)
(* UP or DEGRADED, also when the record was updated while the sweeper      *)
(* awaited the emails for an earlier entry of the batch; no notification   *)
(* of the sweeper is a recovery.                                           *)
C31_SweeperNotifiesDown ==
    [][SweeperStep =>
         /\ \A c \in Handed :
                /\ c.status = DOWN
                /\ c.previous_status \in {UP, DEGRADED}
         /\ \A i \in DOMAIN ret'.done : ~ret'.done[i].is_recovery]_vars

(* C32: when the gate has completed a send for a transition, the history   *)
(* entry of the service has as last status the status the notification     *)
(* reported, also if the record was updated to another status while the    *)
(* emails were awaited.                                                    *)
C32_HistoryHasReportedStatus ==
    [][(ret'.op = "send_email" /\ ret'.done # <<>>)
         => /\ ret'.service_name \in DOMAIN history'
            /\ history'[ret'.service_name].last_status = ret'.reported]_vars

(* C33: check_stale_services changes only the status and the message of    *)
(* the records it demotes.  It creates and deletes no record and keeps     *)
(* their order; every record keeps its check_in_count, last_check_in and   *)
(* metadata; a record it does not return is left as it was.                *)
C33_StaleChangesStatusAndMessageOnly ==
    [][ret'.op = "check_stale_services" =>
         /\ Len(services') = Len(services)
         /\ \A i \in DOMAIN services :
               LET old == services[i]
                   new == services'[i]
                   demoted == \E j \in DOMAIN ret'.stale_services :
                                 ret'.stale_services[j].service_name
                                    = old.service_name
               IN  /\ new.service_name = old.service_name
                   /\ new.check_in_count = old.check_in_count
                   /\ new.last_check_in = old.last_check_in
                   /\ new.metadata = old.metadata
                   /\ DOMAIN new = DOMAIN old
                   /\ ~demoted => new = old]_vars

(* a sweep demoted a record with metadata and two updates and left         *)
(* another record alone                                                    *)
C33_Witness ==
    /\ ret.op = "check_stale_services"
    /\ Len(ret.stale_services) = 1
    /\ Len(services) = 2
    /\ \E i \in DOMAIN services :
          /\ services[i].service_name = ret.stale_services[1].service_name
          /\ services[i].status = DOWN
          /\ services[i].check_in_count = 2
          /\ DOMAIN services[i].metadata = {"a", "b", "c"}

(* C34: the first update of a name, when the record is created and when    *)
(* it is created again after a removal, returns no previous status         *)
(* whatever the new status is; a check-in that creates the record hands    *)
(* nothing to the gate, starts no email and leaves the history alone.      *)
C34_FirstCheckinNeverNotifies ==
    [][(/\ ret'.op = "service_checkin"
        /\ ~ret'.flag
        /\ ret'.service_name \notin Keys(services))
         => /\ ret'.previous_status = None
            /\ Lookup(services', ret'.service_name).status = ret'.status
            /\ Lookup(services', ret'.service_name).check_in_count = 1
            /\ ret'.gate = <<>>
            /\ ret'.done = <<>>
            /\ sends' = sends
            /\ history' = history]_vars

(* a service that was notified about and removed checks in again, DOWN,    *)
(* and nothing is handed to the gate                                       *)
C34_Witness ==
    /\ ret.op = "service_checkin"
    /\ ret.status = DOWN
    /\ ret.previous_status = None
    /\ ret.gate = <<>>
    /\ cfg.enabled
    /\ ret.service_name \in DOMAIN history
    /\ history[ret.service_name].last_status = UP
    /\ Lookup(services, ret.service_name).check_in_count = 1

----------------------------------------------------------------------------
(* Alerts and recoveries of one service, notifications and recovery        *)
(* notifications enabled: every check-in and removal comes when no         *)
(* delivery is in flight, so each send completes before the next           *)
(* transition arrives.                                                     *)
RecoveryNext ==
    \/ Tick
    \/ /\ sends = <<>>
       /\ \/ \E n \in Monitored, s \in ServiceStatus :
                service_checkin(n, s, NoMessage, NoMetadata, FALSE)
          \/ \E n \in Monitored : remove_service(n)
    \/ \E k \in SendSlots, ok \in BOOLEAN : send_email(k, ok)

RecoverySpec == SweepInit /\ [][RecoveryNext]_vars

(* at rest, a service in a problem state that has a history entry was      *)
(* last notified about with an alert                                       *)
LastMessageIsAlert ==
    \A n \in Keys(services) \cap DOMAIN history :
       (sends = <<>> /\ IsAlert(Lookup(services, n).status))
          => IsAlert(history[n].last_status)

----------------------------------------------------------------------------
(* Check-ins of every status, the sweeper and the deliveries under every   *)
(* notification configuration; nothing removes a record or clears the      *)
(* history.                                                                *)
DropNext ==
  /\
    \/ Tick
    \/ \E n \in Monitored, s \in ServiceStatus :
          service_checkin(n, s, NoMessage, NoMetadata, FALSE)
    \/ check_stale_services_loop(FALSE, {})
    \/ \E k \in SendSlots, ok \in BOOLEAN : send_email(k, ok)
  /\ Len(sends') <= Cardinality(SendSlots)

DropSpec == Init /\ [][DropNext]_vars

\* the history entries of a service: one or none
EntryOf(hist, service_name) ==
    IF service_name \in DOMAIN hist THEN <<hist[service_name]>> ELSE <<>>

\* what a call awaiting its first email is about
Waiting(snds) ==
    [i \in {j \in DOMAIN snds : snds[j].recipient = 0} |->
        [service_name |-> snds[i].ref.service_name,
         previous_status |-> snds[i].previous_status,
         status |-> snds[i].status]]

\* the calls that begin to await their first email in this step
Started ==
    {c \in {Waiting(sends')[i] : i \in DOMAIN Waiting(sends')} :
        Cardinality({i \in DOMAIN Waiting(sends') : Waiting(sends')[i] = c})
          > Cardinality({i \in DOMAIN Waiting(sends) : Waiting(sends)[i] = c})}

\* this step decided to send a transition of the service or finished a call
SentFor(service_name) ==
    \/ \E c \in Handed : c.service_name = service_name /\ c.decided
    \/ \E i \in DOMAIN ret'.done : ret'.done[i].service_name = service_name

(* C36: a transition the gate suppresses leaves the history entry of its   *)
(* service as it was and starts no email; the gate keeps no queue: every   *)
(* email sequence that starts belongs to a transition handed over and      *)
(* decided in that very step and the history changes only by such a        *)
(* transition, by a call that finishes or by clear_notification_history;   *)
(* the sweeper hands over no service that was DOWN already, so a demotion  *)
(* suppressed by the cooldown is not alerted later while the service stays *)
(* DOWN.                                                                   *)
C36_SuppressedIsDropped ==
    [][/\ \A c \in Handed :
            (~c.decided /\ ~SentFor(c.service_name))
               => /\ EntryOf(history', c.service_name)
                        = EntryOf(history, c.service_name)
                  /\ \A snd \in Started :
                        snd.service_name # c.service_name
       /\ \A snd \in Started :
            \E c \in Handed : /\ c.decided
                              /\ c.service_name = snd.service_name
                              /\ c.status = snd.status
                              /\ c.previous_status = snd.previous_status
       /\ \A n \in DOMAIN history \cup DOMAIN history' :
            EntryOf(history', n) # EntryOf(history, n)
               => \/ SentFor(n)
                  \/ ret'.op = "clear_notification_history"
       /\ ret'.op = "check_stale_services_loop"
            => \A c \in Handed :
                  Lookup(services, c.service_name).status # DOWN]_vars

(* the sweeper demoted a service to DOWN within the cooldown of its last   *)
(* notification: the alert was suppressed, nothing was written or started  *)
C36_Witness ==
    /\ ret.op = "check_stale_services_loop"
    /\ cfg.enabled
    /\ Len(ret.gate) >= 1
    /\ ret.gate[1].status = DOWN
    /\ ~ret.gate[1].decided
    /\ ret.gate[1].service_name \in DOMAIN history
    /\ CooldownActive(history[ret.gate[1].service_name], now)
    /\ sends = <<>>

----------------------------------------------------------------------------
(* The polling task of one target with every outcome of client.get, and    *)
(* the stale sweeper over the record it writes.                            *)
KeysNext ==
  /\
    \/ Tick
    \/ startup_event
    \/ \E task \in Tasks(manager) :
          \/ monitor_service_loop(task)
          \/ \E outcome \in ProbeOutcomes :
                monitor_service_update(task, outcome, FALSE)
    \/ check_stale_services_loop(FALSE, {})
    \/ \E k \in SendSlots, ok \in BOOLEAN : send_email(k, ok)
  /\ Len(sends') <= Cardinality(SendSlots)

KeysSpec == FailureInit /\ [][KeysNext]_vars

(* C37: the metadata key set of a record never shrinks while the record    *)
(* exists: every step keeps every key of every record it keeps, so the     *)
(* error of a failed probe stays after a later probe writes UP, and        *)
(* http_status_code and response_time_ms of a response stay after a later  *)
(* failed probe and after a stale demotion.                                *)
C37_MetadataKeysNeverShrink ==
    [][\A n \in Keys(services) \cap Keys(services') :
          DOMAIN Lookup(services, n).metadata
             \subseteq DOMAIN Lookup(services', n).metadata]_vars

(* a probe wrote UP into a record that holds the error of a failed probe   *)
C37_Witness ==
    /\ ret.op = "_monitor_service_loop"
    /\ ret.status = UP
    /\ ret.previous_status = DOWN
    /\ "error" \notin DOMAIN ret.metadata.d
    /\ "error" \in DOMAIN Lookup(services, ret.service_name).metadata
    /\ "http_status_code" \in DOMAIN Lookup(services, ret.service_name).metadata

----------------------------------------------------------------------------
(* One target that is polled, stopped, disabled, enabled again and         *)
(* deleted, and the stale sweeper over the record its task wrote.          *)
RetireConfigs(name) ==
    {MonitoredService(name, DEFAULT_EXPECTED_STATUS_CODE, enabled, FALSE,
                      NoContent) : enabled \in BOOLEAN}

RetireInit ==
    InitWith({DefaultConfig}, FALSE,
             UNION {{[NoTargets EXCEPT !.started = FALSE,
                                       !.services = [n \in {name} |-> service]] :
                       service \in RetireConfigs(name)} : name \in Targets})

RetireNext ==
  /\
    \/ Tick
    \/ startup_event
    \/ \E n \in Targets : \E service \in RetireConfigs(n) :
          update_monitored_service(n, service)
    \/ \E n \in Targets : delete_monitored_service(n)
    \/ \E n \in Targets : stop_monitoring(n)
    \/ \E task \in Tasks(manager) :
          \/ monitor_service_loop(task)
          \/ monitor_service_cancelled(task)
          \/ \E outcome \in PolledOutcomes \cup {Cancelled} :
                monitor_service_update(task, outcome, FALSE)
    \/ check_stale_services_loop(FALSE, {})
    \/ \E k \in SendSlots, ok \in BOOLEAN : send_email(k, ok)
  /\ Cardinality(manager'.orphans) <= MaxCancelled
  /\ Len(sends') <= Cardinality(SendSlots)

RetireSpec == RetireInit /\ [][RetireNext]_vars

\* the target has no polling task that will write again
Retired(m, service_name) ==
    \/ service_name \notin DOMAIN m.services
    \/ ~m.services[service_name].enabled
    \/ service_name \notin DOMAIN m.check_tasks

(* C38: stopping, disabling or deleting a monitored target leaves every    *)
(* record of the store as it was; the record of a target without a polling *)
(* task stays under the stale sweep: when its last check-in is older than  *)
(* the timeout and its status is UP or DEGRADED, the sweep sets it to DOWN *)
(* and hands the transition to the gate as an alert.                       *)
C38_RetiredTargetKeepsRecord ==
    [][/\ ret'.op \in {"stop_monitoring", "update_monitored_service",
                        "delete_monitored_service"}
            => services' = services
       /\ ret'.op = "check_stale_services_loop"
            => \A i \in DOMAIN services :
                 (/\ Retired(manager, services[i].service_name)
                  /\ services[i].status \in {UP, DEGRADED}
                  /\ Seconds(now) - Seconds(services[i].last_check_in)
                        > SWEEP_TIMEOUT_SECONDS)
                   => /\ services'[i] = [services[i] EXCEPT
                                           !.status = DOWN,
                                           !.message = services'[i].message]
                      /\ \E c \in Handed :
                            /\ c.service_name = services[i].service_name
                            /\ c.previous_status = services[i].status
                            /\ c.status = DOWN
                            /\ AlertTransition(c)]_vars

(* the sweeper demoted the record of a deleted target and the gate decided *)
(* to send the alert                                                       *)
C38_Witness ==
    /\ ret.op = "check_stale_services_loop"
    /\ Len(ret.gate) = 1
    /\ ret.gate[1].service_name \notin DOMAIN manager.services
    /\ ret.gate[1].previous_status = UP
    /\ ret.gate[1].status = DOWN
    /\ ret.gate[1].decided
    /\ Lookup(services, ret.gate[1].service_name).status = DOWN

----------------------------------------------------------------------------
(* The polling loop for ever.  Time has no end and a record counts its     *)
(* check-ins without end: Shift moves the origin of the clock one tick     *)
(* forward when now is at MaxTime, so that every instant is one tick       *)
(* earlier (an instant before the new origin is taken as the origin), and  *)
(* takes one check-in off a count that is at MaxCount.  Differences of     *)
(* instants within the window stay as they were.                           *)
Earlier(t) == IF t > 0 THEN t - 1 ELSE 0

Shift ==
    /\ now = MaxTime
    /\ now' = now - 1
    /\ services' = [i \in DOMAIN services |->
                      [services[i] EXCEPT
                         !.last_check_in = Earlier(@),
                         !.check_in_count = IF @ = MaxCount THEN @ - 1 ELSE @]]
    /\ manager' = [manager EXCEPT
                     !.check_tasks = [n \in DOMAIN @ |->
                                        [@[n] EXCEPT !.since = Earlier(@)]],
                     !.orphans = {[task EXCEPT !.since = Earlier(@)] : task \in @}]
    /\ ret' = NoRet("shift")
    /\ UNCHANGED <<gate_vars, probes>>

LoopNext ==
  /\
    \/ Tick
    \/ Shift
    \/ startup_event
    \/ stop_monitoring("a")
    \/ \E task \in Tasks(manager) :
          \/ monitor_service_loop(task)
          \/ monitor_service_cancelled(task)
          \/ \E outcome \in ProbeOutcomes \cup {Cancelled} :
                monitor_service_update(task, outcome, FALSE)
  /\ Cardinality(manager'.orphans) <= MaxCancelled

(* The application starts, the clock goes on, the event loop resumes a     *)
(* task whose sleep is over, and client.get returns or raises within the   *)
(* timeout of the request.                                                 *)
LoopSpec ==
    /\ FailureInit
    /\ [][LoopNext]_vars
    /\ WF_vars(startup_event)
    /\ WF_vars(Tick \/ Shift)
    /\ WF_vars(\E task \in Tasks(manager) : monitor_service_loop(task))
    /\ WF_vars(\E task \in Tasks(manager), outcome \in ProbeOutcomes :
                 monitor_service_update(task, outcome, FALSE))

(* C39: the polling task of an enabled target that is started and never    *)
(* cancelled writes to the store again and again; whatever client.get did  *)
(* (a response as expected or not, a timeout, a connection error, another  *)
(* exception), the iteration calls update_service with the status of that  *)
(* outcome and the task goes to its sleep: no outcome ends the loop or     *)
(* keeps it from the store.                                                *)
C39_PollsForever ==
    /\ \/ []<>(ret.op = "_monitor_service_loop" /\ ret.service_name = "a")
       \/ <>(manager.orphans # {})
    /\ [][("outcome" \in DOMAIN ret' /\ ~ret'.flag)
            => /\ ret'.op = "_monitor_service_loop"
               /\ ret'.service_name \in Keys(services')
               /\ Lookup(services', ret'.service_name).status = ret'.status
               /\ Lookup(services', ret'.service_name).last_check_in = now
               /\ ret'.status = IF ret'.outcome = "response" THEN ret'.status
                                ELSE DOWN
               /\ ret'.service_name \in DOMAIN manager'.check_tasks
               /\ manager'.check_tasks[ret'.service_name].pc = "sleep"]_vars

(* after a write of UP the next probe raised an exception that is neither  *)
(* a timeout nor a connection error: DOWN was written and the task sleeps  *)
C39_Witness ==
    /\ ret.op = "_monitor_service_loop"
    /\ ret.outcome = "Exception"
    /\ ret.previous_status = UP
    /\ ret.status = DOWN
    /\ Lookup(services, "a").check_in_count = MaxCount
    /\ manager.check_tasks["a"].pc = "sleep"
=============================================================================
